---- MODULE Spec2Model ----
(***************************************************************************)
(* A model of the read-only FAT32 navigator of rust-fat: path parsing and  *)
(* joining (fs/path.rs), the allocation table (fs/fat_table.rs), cluster   *)
(* chains (cluster.rs), directory records (fs/entry.rs, fs/directory.rs),  *)
(* the boot sector (boot.rs) and the navigator Fat32Fs (fs/fat.rs).        *)
(*                                                                         *)
(* Bytes are the numbers 0..255, a byte buffer is a sequence of bytes and  *)
(* the byte at offset o of buffer d is d[o + 1].  A Rust string is the     *)
(* sequence of its UTF-8 bytes, so "/D1" is <<47, 68, 49>>.  Every number  *)
(* read from an image is below 2^31.                                       *)
(***************************************************************************)
EXTENDS Integers, Sequences, FiniteSets, TLC

VARIABLES
    device_data,    \* Fat32Fs.device_data: the whole image, a byte sequence
    boot_sector,    \* Fat32Fs.boot_sector: the decoded geometry
    fat_table,      \* Fat32Fs.fat_table, and the table ClusterChain::new walks
    current_path,   \* Fat32Fs.current_path
    last,           \* the last navigator call: its name, argument and result
    start_cluster,  \* ClusterChain::new: the start_cluster argument
    chain           \* ClusterChain::new: the locals of the running call

vars == <<device_data, boot_sector, fat_table, current_path, last,
          start_cluster, chain>>

fsVars == <<device_data, boot_sector, current_path, last>>
chainVars == <<start_cluster, chain>>

-----------------------------------------------------------------------------
(* Results: Rust's Result<T, E> and Option<T>.                             *)

Ok(v) == [ok |-> TRUE, val |-> v]

\* An error of kind `kind`.  `text` is the fixed part of its message and
\* `arg` the string the code splices into it (<<>> when there is none).
Err(kind, text, arg) == [ok |-> FALSE, kind |-> kind, text |-> text, arg |-> arg]

None == [some |-> FALSE]
Some(v) == [some |-> TRUE, val |-> v]

\* The variants of FileSystemError.
FileSystemErrorKinds ==
    {"InvalidPath", "FileNotFound", "DirectoryNotFound", "InvalidFat",
     "InvalidBootSector", "ClusterChainError", "DirectoryEntryError", "IoError",
     "OutOfMemory", "Unsupported"}

IsErr(r, kind) == ~r.ok /\ r.kind = kind

Min(a, b) == IF a <= b THEN a ELSE b

-----------------------------------------------------------------------------
(* Program constants.                                                      *)

EndOfChainMin == 268435448      \* 0x0FFFFFF8
BadCluster == 268435447         \* 0x0FFFFFF7
MaxComponentLen == 255

-----------------------------------------------------------------------------
(* fs/fat_table.rs                                                         *)
(* A FatTable is [len, entries]: len is entries.len() and entries maps a   *)
(* cluster number below len to its entry.  A cluster below len that        *)
(* `entries` does not list holds 0 (a free cluster): this keeps a table of *)
(* 2^28 entries representable.                                             *)

EntryAt(t, c) == IF c \in DOMAIN t.entries THEN t.entries[c] ELSE 0

\* A bounds test that lets the table length itself through.
FatTable_get_entry_OffByOne(t, c) ==
    IF c > t.len
    THEN Err("InvalidFat", "Cluster out of FAT bounds", <<>>)
    ELSE Ok(EntryAt(t, c))

FatTable_get_entry(t, c) ==
    IF c >= t.len
    THEN Err("InvalidFat", "Cluster out of FAT bounds", <<>>)
    ELSE Ok(EntryAt(t, c))

FatTable_is_end_of_chain(t, c) ==
    IF c >= t.len THEN TRUE ELSE EntryAt(t, c) >= EndOfChainMin

FatTable_is_bad_cluster(t, c) ==
    IF c >= t.len THEN TRUE ELSE EntryAt(t, c) = BadCluster

FatTable_is_free_cluster(t, c) ==
    IF c >= t.len THEN FALSE ELSE EntryAt(t, c) = 0

FatTable_len(t) == t.len

-----------------------------------------------------------------------------
(* cluster.rs: ClusterChain::new.                                          *)
(* The locals of a call are [pc, clusters, current, iterations, lookups,   *)
(* result]; lookups counts the calls of get_entry (it is not a variable of *)
(* the code).  pc is "start" before the start_cluster check, "loop" at the *)
(* head of the loop and "done" after a return.                             *)

ChainIdle ==
    [pc |-> "start", clusters |-> <<>>, current |-> 0, iterations |-> 0,
     lookups |-> 0, result |-> None]

ChainReturn(st, r) == [st EXCEPT !.pc = "done", !.result = r]

\* Lines 22-33: the start_cluster check and the initialisation of the locals.
ChainEnter(st, start) ==
    IF start < 2
    THEN ChainReturn(st, Err("ClusterChainError",
                             "Invalid cluster number (must be >= 2)", <<>>))
    ELSE [st EXCEPT !.pc = "loop", !.clusters = <<>>, !.current = start,
                    !.iterations = 0]

\* The cap one iteration late.
ChainCapReached_Off(st, t) == st.iterations > FatTable_len(t)

\* Line 36: the iteration cap.
ChainCapReached(st, t) == st.iterations >= FatTable_len(t)

\* The loop pushing the current cluster only once its entry is a link.
ChainLoopBody_PushLate(t, st) ==
    IF ChainCapReached(st, t)
    THEN ChainReturn(st, Err("ClusterChainError",
                             "Cluster chain too long or circular", <<>>))
    ELSE LET counted == [st EXCEPT !.lookups = st.lookups + 1]
             next == FatTable_get_entry(t, st.current)
         IN  IF ~next.ok THEN ChainReturn(counted, next)
             ELSE IF next.val >= EndOfChainMin
             THEN ChainReturn(counted, Ok(counted.clusters))
             ELSE IF next.val = BadCluster
             THEN ChainReturn(counted, Err("ClusterChainError",
                                           "Bad cluster in chain", <<>>))
             ELSE IF next.val < 2
             THEN ChainReturn(counted, Err("ClusterChainError",
                                           "Invalid next cluster number", <<>>))
             ELSE [counted EXCEPT !.clusters = Append(st.clusters, st.current),
                                  !.current = next.val,
                                  !.iterations = st.iterations + 1]

\* Lines 35-67: one iteration of the loop.
ChainLoopBody(t, st) ==
    IF ChainCapReached(st, t)
    THEN ChainReturn(st, Err("ClusterChainError",
                             "Cluster chain too long or circular", <<>>))
    ELSE LET pushed == [st EXCEPT !.clusters = Append(st.clusters, st.current),
                                  !.lookups = st.lookups + 1]
             next == FatTable_get_entry(t, st.current)
         IN  IF ~next.ok THEN ChainReturn(pushed, next)
             ELSE IF next.val >= EndOfChainMin
             THEN ChainReturn(pushed, Ok(pushed.clusters))
             ELSE IF next.val = BadCluster
             THEN ChainReturn(pushed, Err("ClusterChainError",
                                          "Bad cluster in chain", <<>>))
             ELSE IF next.val < 2
             THEN ChainReturn(pushed, Err("ClusterChainError",
                                          "Invalid next cluster number", <<>>))
             ELSE [pushed EXCEPT !.current = next.val,
                                 !.iterations = st.iterations + 1]

RECURSIVE ChainRun(_, _)
ChainRun(t, st) ==
    IF st.pc = "done" THEN st.result ELSE ChainRun(t, ChainLoopBody(t, st))

\* ClusterChain::new as a function: the result of the whole call.
ClusterChain_new(t, start) == ChainRun(t, ChainEnter(ChainIdle, start))

ClusterChain_len(clusters) == Len(clusters)

-----------------------------------------------------------------------------
(* Strings and byte buffers.                                               *)

Slash == 47     \* '/'
Dot == 46       \* '.'
Space == 32     \* ' '

DotDot == <<Dot, Dot>>

\* The printable ASCII characters, from code 32 to code 126 (code 96, the
\* grave accent, cannot be written in a string and is spelt out).
Printable ==
    <<" ", "!", "\"", "#", "$", "%", "&", "'", "(", ")", "*", "+", ",", "-",
      ".", "/", "0", "1", "2", "3", "4", "5", "6", "7", "8", "9", ":", ";",
      "<", "=", ">", "?", "@", "A", "B", "C", "D", "E", "F", "G", "H", "I",
      "J", "K", "L", "M", "N", "O", "P", "Q", "R", "S", "T", "U", "V", "W",
      "X", "Y", "Z", "[", "\\", "]", "^", "_", "(grave)", "a", "b", "c", "d", "e",
      "f", "g", "h", "i", "j", "k", "l", "m", "n", "o", "p", "q", "r", "s",
      "t", "u", "v", "w", "x", "y", "z", "{", "|", "}", "~">>

Code(c) == 31 + (CHOOSE i \in 1..Len(Printable) : Printable[i] = c)

\* The string spelt by a tuple of one-character strings: Str(<<"/", "a">>).
Str(cs) == [i \in 1..Len(cs) |-> Code(cs[i])]

\* d[from .. to), offsets counted from 0 as in Rust's d[from..to].
Slice(d, from, to) == SubSeq(d, from + 1, to)

U8At(d, off) == d[off + 1]
U16At(d, off) == d[off + 1] + 256 * d[off + 2]
U32At(d, off) ==
    d[off + 1] + 256 * d[off + 2] + 65536 * d[off + 3] + 16777216 * d[off + 4]

\* u32::from_le_bytes(..) & 0x0FFFFFFF: the top four bits are dropped.
MaskedU32At(d, off) ==
    d[off + 1] + 256 * d[off + 2] + 65536 * d[off + 3] + 16777216 * (d[off + 4] % 16)

RECURSIVE Concat(_)
Concat(ss) == IF ss = <<>> THEN <<>> ELSE Head(ss) \o Concat(Tail(ss))

\* u8::to_ascii_lowercase, which str::eq_ignore_ascii_case compares through.
ToAsciiLower(b) == IF b >= 65 /\ b <= 90 THEN b + 32 ELSE b

EqIgnoreAsciiCase(a, b) ==
    /\ Len(a) = Len(b)
    /\ \A i \in 1..Len(a) : ToAsciiLower(a[i]) = ToAsciiLower(b[i])

\* core::str::from_utf8(bytes).is_ok(): the well-formed UTF-8 byte sequences.
RECURSIVE IsUtf8(_)
IsUtf8(b) ==
    LET n == Len(b)
        Cont(i) == i <= n /\ b[i] >= 128 /\ b[i] <= 191
        Rest(k) == IsUtf8(SubSeq(b, k + 1, n))
    IN  IF n = 0 THEN TRUE
        ELSE IF b[1] <= 127 THEN Rest(1)
        ELSE IF b[1] >= 194 /\ b[1] <= 223 THEN Cont(2) /\ Rest(2)
        ELSE IF b[1] = 224
        THEN n >= 2 /\ b[2] >= 160 /\ b[2] <= 191 /\ Cont(3) /\ Rest(3)
        ELSE IF b[1] = 237
        THEN n >= 2 /\ b[2] >= 128 /\ b[2] <= 159 /\ Cont(3) /\ Rest(3)
        ELSE IF b[1] >= 225 /\ b[1] <= 239 THEN Cont(2) /\ Cont(3) /\ Rest(3)
        ELSE IF b[1] = 240
        THEN n >= 2 /\ b[2] >= 144 /\ b[2] <= 191 /\ Cont(3) /\ Cont(4) /\ Rest(4)
        ELSE IF b[1] >= 241 /\ b[1] <= 243
        THEN Cont(2) /\ Cont(3) /\ Cont(4) /\ Rest(4)
        ELSE IF b[1] = 244
        THEN n >= 2 /\ b[2] >= 128 /\ b[2] <= 143 /\ Cont(3) /\ Cont(4) /\ Rest(4)
        ELSE FALSE

-----------------------------------------------------------------------------
(* fs/path.rs                                                              *)
(* A Path is [components, absolute].  PathError kinds are "Empty",         *)
(* "InvalidFormat" and "ComponentTooLong".                                 *)

\* str::split('/'): the segments between separators, empty ones included.
RECURSIVE Split(_)
Split(s) ==
    IF \A i \in 1..Len(s) : s[i] # Slash THEN <<s>>
    ELSE LET i == CHOOSE k \in 1..Len(s) :
                      s[k] = Slash /\ \A j \in 1..(k - 1) : s[j] # Slash
         IN  <<SubSeq(s, 1, i - 1)>> \o Split(SubSeq(s, i + 1, Len(s)))

StartsWithSlash(s) == Len(s) > 0 /\ s[1] = Slash

\* Lines 56-64: the closure mapped over the kept segments.
MapComponent(seg) ==
    IF seg = DotDot THEN DotDot
    ELSE IF Len(seg) > MaxComponentLen THEN <<>>
    ELSE seg

\* A filter that drops the empty segments only.
ParseComponents_KeepDot(rest) ==
    IF rest = <<>> THEN <<>>
    ELSE LET kept == SelectSeq(Split(rest), LAMBDA seg : seg # <<>>)
         IN  [i \in 1..Len(kept) |-> MapComponent(kept[i])]

\* Lines 49-66.
ParseComponents(rest) ==
    IF rest = <<>> THEN <<>>
    ELSE LET kept == SelectSeq(Split(rest), LAMBDA seg : seg # <<>> /\ seg # <<Dot>>)
         IN  [i \in 1..Len(kept) |-> MapComponent(kept[i])]

\* Lines 69-76: the first component that fails the final check decides.
RECURSIVE CheckComponents(_)
CheckComponents(cs) ==
    IF cs = <<>> THEN Ok(TRUE)
    ELSE IF Head(cs) = <<>> THEN Err("InvalidFormat", "Empty component", <<>>)
    ELSE IF Len(Head(cs)) > MaxComponentLen THEN Err("ComponentTooLong", "", <<>>)
    ELSE CheckComponents(Tail(cs))

Path_new(path_str) ==
    IF path_str = <<>> THEN Err("Empty", "", <<>>)
    ELSE LET absolute == StartsWithSlash(path_str)
             rest == IF absolute THEN Tail(path_str) ELSE path_str
             components == ParseComponents(rest)
             checked == CheckComponents(components)
         IN  IF ~checked.ok THEN checked
             ELSE Ok([components |-> components, absolute |-> absolute])

Path_root == [components |-> <<>>, absolute |-> TRUE]

Path_is_absolute(p) == p.absolute

\* A root test that never recognises the root.
Path_is_root_Never(p) == FALSE

Path_is_root(p) == p.absolute /\ p.components = <<>>

\* A loop that keeps a `..` it finds nothing to pop for.
RECURSIVE Resolve_KeepUnmatched(_, _)
Resolve_KeepUnmatched(resolved, cs) ==
    IF cs = <<>> THEN resolved
    ELSE IF Head(cs) = DotDot /\ resolved # <<>>
    THEN Resolve_KeepUnmatched(SubSeq(resolved, 1, Len(resolved) - 1), Tail(cs))
    ELSE Resolve_KeepUnmatched(Append(resolved, Head(cs)), Tail(cs))

\* Lines 120-129: the loop that resolves the `..` components.
RECURSIVE Resolve(_, _)
Resolve(resolved, cs) ==
    IF cs = <<>> THEN resolved
    ELSE IF Head(cs) = DotDot
    THEN Resolve(IF resolved # <<>> THEN SubSeq(resolved, 1, Len(resolved) - 1)
                 ELSE resolved, Tail(cs))
    ELSE Resolve(Append(resolved, Head(cs)), Tail(cs))

Path_join(self, other) ==
    IF Path_is_absolute(other) THEN Ok(other)
    ELSE Ok([components |-> Resolve(<<>>, self.components \o other.components),
             absolute |-> self.absolute])

Path_parent(p) ==
    IF p.components = <<>> THEN None
    ELSE Some([components |-> SubSeq(p.components, 1, Len(p.components) - 1),
               absolute |-> p.absolute])

Path_file_name(p) ==
    IF p.components = <<>> THEN None ELSE Some(p.components[Len(p.components)])

\* PathBuf::push: the path the buffer holds after the call, and what the call
\* returns.  The buffer is left as it was when the component does not parse.
PathBuf_push(self, component) ==
    LET new_path == Path_new(component)
    IN  IF ~new_path.ok THEN [path |-> self, res |-> new_path]
        ELSE LET joined == Path_join(self, new_path.val)
             IN  IF ~joined.ok THEN [path |-> self, res |-> joined]
                 ELSE [path |-> joined.val, res |-> Ok(<<>>)]

\* PathBuf::pop: the path the buffer holds after the call, and the boolean
\* the call returns.
PathBuf_pop(self) ==
    LET parent == Path_parent(self)
    IN  IF parent.some THEN [path |-> parent.val, res |-> TRUE]
        ELSE [path |-> self, res |-> FALSE]

RECURSIVE JoinWithSlash(_)
JoinWithSlash(cs) ==
    IF cs = <<>> THEN <<>>
    ELSE IF Len(cs) = 1 THEN cs[1]
    ELSE cs[1] \o <<Slash>> \o JoinWithSlash(Tail(cs))

\* A rendering that writes the leading separator before a component only.
Path_to_string_NoRoot(p) ==
    (IF p.absolute /\ p.components # <<>> THEN <<Slash>> ELSE <<>>)
        \o JoinWithSlash(p.components)

Path_to_string(p) ==
    (IF p.absolute THEN <<Slash>> ELSE <<>>) \o JoinWithSlash(p.components)

\* fs/mod.rs: impl From<PathError> for FileSystemError.
FromPathError(e) ==
    Err("InvalidPath",
        CASE e.kind = "InvalidFormat" -> e.text
          [] e.kind = "Empty" -> "Empty path"
          [] e.kind = "ComponentTooLong" -> "Path component too long",
        <<>>)

-----------------------------------------------------------------------------
(* boot.rs                                                                 *)
(* The packed BootSector struct read over the first 512 bytes.  Only the   *)
(* fields some code reads are kept: the geometry, the type tag and the     *)
(* signature.                                                              *)

BootSectorSize == 512
BootSignature == 43605          \* 0xAA55

\* A decoder that compares all eight bytes of the tag with "FAT32   ".
BootSector_from_bytes_WholeTag(data) ==
    IF Len(data) < BootSectorSize
    THEN Err("InvalidBootSector", "Boot sector must be at least 512 bytes", <<>>)
    ELSE LET bs == [bytes_per_sector |-> U16At(data, 11),
                    sectors_per_cluster |-> U8At(data, 13),
                    reserved_sector_count |-> U16At(data, 14),
                    num_fats |-> U8At(data, 16),
                    sectors_per_fat_32 |-> U32At(data, 36),
                    root_cluster |-> U32At(data, 44),
                    fs_type |-> Slice(data, 82, 90),
                    boot_signature_end |-> U16At(data, 510)]
         IN  IF bs.fs_type # <<70, 65, 84, 51, 50, 32, 32, 32>>
             THEN Err("InvalidBootSector", "Not a FAT32 filesystem", <<>>)
             ELSE IF bs.boot_signature_end # BootSignature
             THEN Err("InvalidBootSector", "Invalid boot sector signature", <<>>)
             ELSE Ok(bs)

BootSector_from_bytes(data) ==
    IF Len(data) < BootSectorSize
    THEN Err("InvalidBootSector", "Boot sector must be at least 512 bytes", <<>>)
    ELSE LET bs == [bytes_per_sector |-> U16At(data, 11),
                    sectors_per_cluster |-> U8At(data, 13),
                    reserved_sector_count |-> U16At(data, 14),
                    num_fats |-> U8At(data, 16),
                    sectors_per_fat_32 |-> U32At(data, 36),
                    root_cluster |-> U32At(data, 44),
                    fs_type |-> Slice(data, 82, 90),
                    boot_signature_end |-> U16At(data, 510)]
         IN  IF bs.fs_type[1] # 70 \/ bs.fs_type[2] # 65
                \/ bs.fs_type[3] # 84 \/ bs.fs_type[4] # 51
             THEN Err("InvalidBootSector", "Not a FAT32 filesystem", <<>>)
             ELSE IF bs.boot_signature_end # BootSignature
             THEN Err("InvalidBootSector", "Invalid boot sector signature", <<>>)
             ELSE Ok(bs)

\* r?.f(): the error of r, or F applied to its value.
AndThen(r, F(_)) == IF r.ok THEN F(r.val) ELSE r

(* u32 arithmetic.  A result of kind "ArithmeticOverflow" marks the point   *)
(* where an operation leaves the range of u32: a build with overflow       *)
(* checks panics there, a build without them goes on with the wrapped      *)
(* value.  The call is modelled up to that point.  Operands are below      *)
(* 2^31; floor((2^32 - 1) / n) is computed from 2^31 - 1 = q * n + r.      *)
MulU32(a, b) ==
    LET small == IF a < b THEN a ELSE b
        big == IF a < b THEN b ELSE a
        q == 2147483647 \div small
        r == 2147483647 % small
        limit == 2 * q + (2 * r + 1) \div small
    IN  IF small >= 2 /\ big > limit
        THEN Err("ArithmeticOverflow", "attempt to multiply with overflow", <<>>)
        ELSE Ok(a * b)

\* a + b > 2^32 - 1, written as a - 2^31 > (2^31 - 1) - b.
AddU32(a, b) ==
    IF (a - 2147483647) - 1 > 2147483647 - b
    THEN Err("ArithmeticOverflow", "attempt to add with overflow", <<>>)
    ELSE Ok(a + b)

SubU32(a, b) ==
    IF a < b
    THEN Err("ArithmeticOverflow", "attempt to subtract with overflow", <<>>)
    ELSE Ok(a - b)

BootSector_bytes_per_sector(bs) == bs.bytes_per_sector
BootSector_sectors_per_cluster(bs) == bs.sectors_per_cluster
BootSector_cluster_size(bs) ==
    BootSector_bytes_per_sector(bs) * BootSector_sectors_per_cluster(bs)
BootSector_fat_start_sector(bs) == bs.reserved_sector_count
BootSector_root_cluster(bs) == bs.root_cluster
BootSector_sectors_per_fat(bs) == bs.sectors_per_fat_32
BootSector_num_fats(bs) == bs.num_fats

BootSector_data_start_sector(bs) ==
    AndThen(MulU32(bs.sectors_per_fat_32, bs.num_fats), LAMBDA fats :
        AddU32(BootSector_fat_start_sector(bs), fats))

-----------------------------------------------------------------------------
(* fs/fat_table.rs: FatTable::from_bytes.                                  *)

FatTable_from_bytes(data) ==
    IF Len(data) % 4 # 0
    THEN Err("InvalidFat", "FAT table size must be multiple of 4", <<>>)
    ELSE Ok([len |-> Len(data) \div 4,
             entries |-> [c \in 0..(Len(data) \div 4 - 1) |-> MaskedU32At(data, 4 * c)]])

-----------------------------------------------------------------------------
(* fs/entry.rs                                                             *)
(* The file_size field of a record is kept as its four bytes and read as a *)
(* number by file_size(): a long-name slot decoded as a short record holds *)
(* 0xFFFFFFFF there.                                                       *)

SlotSize == 32
EndMarker == 0          \* 0x00: end of directory
DeletedMarker == 229    \* 0xE5: deleted record
LfnAttribute == 15      \* 0x0F
AttrDirectory == 16     \* 0x10
AttrVolumeLabel == 8    \* 0x08

\* Whether bit `bit` (a power of two) is set in byte b.
BitSet(b, bit) == (b \div bit) % 2 = 1

\* A decoder that takes a deleted record for a live one.
DirectoryEntry_from_bytes_KeepDeleted(data) ==
    IF Len(data) < SlotSize
    THEN Err("DirectoryEntryError", "Directory entry must be at least 32 bytes", <<>>)
    ELSE LET entry == [name |-> Slice(data, 0, 11),
                       attributes |-> U8At(data, 11),
                       nt_reserved |-> U8At(data, 12),
                       creation_time_tenths |-> U8At(data, 13),
                       creation_time |-> U16At(data, 14),
                       creation_date |-> U16At(data, 16),
                       last_access_date |-> U16At(data, 18),
                       first_cluster_high |-> U16At(data, 20),
                       last_write_time |-> U16At(data, 22),
                       last_write_date |-> U16At(data, 24),
                       first_cluster_low |-> U16At(data, 26),
                       file_size |-> Slice(data, 28, 32)]
         IN  IF entry.name[1] = EndMarker
             THEN Err("DirectoryEntryError", "Empty or deleted entry", <<>>)
             ELSE Ok(entry)

DirectoryEntry_from_bytes(data) ==
    IF Len(data) < SlotSize
    THEN Err("DirectoryEntryError", "Directory entry must be at least 32 bytes", <<>>)
    ELSE LET entry == [name |-> Slice(data, 0, 11),
                       attributes |-> U8At(data, 11),
                       nt_reserved |-> U8At(data, 12),
                       creation_time_tenths |-> U8At(data, 13),
                       creation_time |-> U16At(data, 14),
                       creation_date |-> U16At(data, 16),
                       last_access_date |-> U16At(data, 18),
                       first_cluster_high |-> U16At(data, 20),
                       last_write_time |-> U16At(data, 22),
                       last_write_date |-> U16At(data, 24),
                       first_cluster_low |-> U16At(data, 26),
                       file_size |-> Slice(data, 28, 32)]
         IN  IF entry.name[1] = EndMarker \/ entry.name[1] = DeletedMarker
             THEN Err("DirectoryEntryError", "Empty or deleted entry", <<>>)
             ELSE Ok(entry)

DirectoryEntry_is_directory(e) == BitSet(e.attributes, AttrDirectory)

DirectoryEntry_is_volume_label(e) == BitSet(e.attributes, AttrVolumeLabel)

DirectoryEntry_is_file(e) ==
    ~DirectoryEntry_is_directory(e) /\ ~BitSet(e.attributes, AttrVolumeLabel)

DirectoryEntry_first_cluster(e) == e.first_cluster_high * 65536 + e.first_cluster_low

DirectoryEntry_file_size(e) == U32At(e.file_size, 0)

\* Lines 91-99: the name bytes up to the first space.
RECURSIVE UpToSpace(_)
UpToSpace(bs) ==
    IF bs = <<>> \/ Head(bs) = Space THEN <<>>
    ELSE <<Head(bs)>> \o UpToSpace(Tail(bs))

DirectoryEntry_short_name(e) ==
    LET name_bytes == UpToSpace(SubSeq(e.name, 1, 8))
        ext_bytes == SelectSeq(SubSeq(e.name, 9, 11), LAMBDA b : b # Space)
    IN  IF ~IsUtf8(name_bytes)
        THEN Err("DirectoryEntryError", "Invalid UTF-8 in name", <<>>)
        ELSE IF ext_bytes # <<>>
        THEN IF ~IsUtf8(ext_bytes)
             THEN Err("DirectoryEntryError", "Invalid UTF-8 in extension", <<>>)
             ELSE Ok(name_bytes \o <<Dot>> \o ext_bytes)
        ELSE Ok(name_bytes)

\* The packed LongFileNameEntry struct read over a 32-byte slot.
LongFileNameEntry_read(data) ==
    [sequence |-> U8At(data, 0),
     name1 |-> [i \in 1..5 |-> U16At(data, 1 + 2 * (i - 1))],
     attributes |-> U8At(data, 11),
     type_ |-> U8At(data, 12),
     checksum |-> U8At(data, 13),
     name2 |-> [i \in 1..6 |-> U16At(data, 14 + 2 * (i - 1))],
     first_cluster |-> U16At(data, 26),
     name3 |-> [i \in 1..2 |-> U16At(data, 28 + 2 * (i - 1))]]

\* A validity test that looks at the attribute byte only.
LongFileNameEntry_is_valid_AttributeOnly(l) == l.attributes = LfnAttribute

LongFileNameEntry_is_valid(l) ==
    l.attributes = LfnAttribute /\ l.type_ = 0 /\ l.first_cluster = 0

LongFileNameEntry_sequence_number(l) == l.sequence % 64

LongFileNameEntry_is_last(l) == BitSet(l.sequence, 64)

LongFileNameEntry_name_chars(l) == l.name1 \o l.name2 \o l.name3

DirEntry_new(entry) == [entry |-> entry, long_name |-> None]

DirEntry_with_long_name(d, long_name) == [d EXCEPT !.long_name = Some(long_name)]

DirEntry_name(d) ==
    IF d.long_name.some THEN Ok(d.long_name.val)
    ELSE DirectoryEntry_short_name(d.entry)

-----------------------------------------------------------------------------
(* fs/directory.rs                                                         *)

\* data.chunks_exact(32): the whole 32-byte slots of data, in order.
Chunks(data) ==
    [i \in 1..(Len(data) \div SlotSize) |->
        SubSeq(data, SlotSize * (i - 1) + 1, SlotSize * i)]

\* Vec::sort_by(|a, b| b.0.cmp(&a.0)): a stable sort, sequence numbers
\* descending.  InsertDesc puts x behind every part whose number is >= its own.
RECURSIVE InsertDesc(_, _)
InsertDesc(sorted, x) ==
    IF sorted = <<>> THEN <<x>>
    ELSE IF Head(sorted)[1] >= x[1] THEN <<Head(sorted)>> \o InsertDesc(Tail(sorted), x)
    ELSE <<x>> \o sorted

RECURSIVE SortDesc(_)
SortDesc(parts) ==
    IF parts = <<>> THEN <<>>
    ELSE InsertDesc(SortDesc(SubSeq(parts, 1, Len(parts) - 1)), parts[Len(parts)])

\* Lines 83-90: the characters one fragment gives: those before its first
\* 0x0000 or 0xFFFF unit, the units of 0x80 and above dropped.
RECURSIVE FragmentChars(_)
FragmentChars(chars) ==
    IF chars = <<>> \/ Head(chars) = 0 \/ Head(chars) = 65535 THEN <<>>
    ELSE (IF Head(chars) < 128 THEN <<Head(chars)>> ELSE <<>>)
         \o FragmentChars(Tail(chars))

\* Lines 82-91: the long name the pending fragments give, in their order.
LongName(lfn_parts) ==
    Concat([i \in 1..Len(lfn_parts) |-> FragmentChars(lfn_parts[i][2])])


\* The scan taking an end marker for a slot to skip.
ScanChunk_NoStop(st, chunk) ==
    IF chunk[1] = EndMarker THEN st
    ELSE IF chunk[1] = DeletedMarker THEN [st EXCEPT !.lfn_parts = <<>>]
    ELSE IF chunk[12] = LfnAttribute
    THEN LET lfn == LongFileNameEntry_read(chunk)
         IN  IF LongFileNameEntry_is_valid(lfn)
             THEN LET pushed == Append(st.lfn_parts,
                                       <<LongFileNameEntry_sequence_number(lfn),
                                         LongFileNameEntry_name_chars(lfn)>>)
                  IN  IF LongFileNameEntry_is_last(lfn)
                      THEN [st EXCEPT !.lfn_parts = SortDesc(pushed)]
                      ELSE [st EXCEPT !.lfn_parts = pushed]
             ELSE st
    ELSE LET decoded == DirectoryEntry_from_bytes(chunk)
         IN  IF ~decoded.ok THEN [st EXCEPT !.lfn_parts = <<>>]
             ELSE IF DirectoryEntry_is_volume_label(decoded.val)
             THEN [st EXCEPT !.lfn_parts = <<>>]
             ELSE LET plain == DirEntry_new(decoded.val)
                      long_name == LongName(st.lfn_parts)
                      dir_entry == IF st.lfn_parts # <<>> /\ long_name # <<>>
                                   THEN DirEntry_with_long_name(plain, long_name)
                                   ELSE plain
                  IN  [st EXCEPT !.entries = Append(st.entries, dir_entry),
                                 !.lfn_parts = <<>>]

\* The scan keeping the pending fragments across a deleted record.
ScanChunk_KeepOnDeleted(st, chunk) ==
    IF chunk[1] = EndMarker THEN [st EXCEPT !.stop = TRUE]
    ELSE IF chunk[1] = DeletedMarker THEN st
    ELSE IF chunk[12] = LfnAttribute
    THEN LET lfn == LongFileNameEntry_read(chunk)
         IN  IF LongFileNameEntry_is_valid(lfn)
             THEN LET pushed == Append(st.lfn_parts,
                                       <<LongFileNameEntry_sequence_number(lfn),
                                         LongFileNameEntry_name_chars(lfn)>>)
                  IN  IF LongFileNameEntry_is_last(lfn)
                      THEN [st EXCEPT !.lfn_parts = SortDesc(pushed)]
                      ELSE [st EXCEPT !.lfn_parts = pushed]
             ELSE st
    ELSE LET decoded == DirectoryEntry_from_bytes(chunk)
         IN  IF ~decoded.ok THEN [st EXCEPT !.lfn_parts = <<>>]
             ELSE IF DirectoryEntry_is_volume_label(decoded.val)
             THEN [st EXCEPT !.lfn_parts = <<>>]
             ELSE LET plain == DirEntry_new(decoded.val)
                      long_name == LongName(st.lfn_parts)
                      dir_entry == IF st.lfn_parts # <<>> /\ long_name # <<>>
                                   THEN DirEntry_with_long_name(plain, long_name)
                                   ELSE plain
                  IN  [st EXCEPT !.entries = Append(st.entries, dir_entry),
                                 !.lfn_parts = <<>>]

\* Lines 24-106: one turn of the loop over the 32-byte slots.
ScanChunk(st, chunk) ==
    IF chunk[1] = EndMarker THEN [st EXCEPT !.stop = TRUE]
    ELSE IF chunk[1] = DeletedMarker THEN [st EXCEPT !.lfn_parts = <<>>]
    ELSE IF chunk[12] = LfnAttribute
    THEN LET lfn == LongFileNameEntry_read(chunk)
         IN  IF LongFileNameEntry_is_valid(lfn)
             THEN LET pushed == Append(st.lfn_parts,
                                       <<LongFileNameEntry_sequence_number(lfn),
                                         LongFileNameEntry_name_chars(lfn)>>)
                  IN  IF LongFileNameEntry_is_last(lfn)
                      THEN [st EXCEPT !.lfn_parts = SortDesc(pushed)]
                      ELSE [st EXCEPT !.lfn_parts = pushed]
             ELSE st
    ELSE LET decoded == DirectoryEntry_from_bytes(chunk)
         IN  IF ~decoded.ok THEN [st EXCEPT !.lfn_parts = <<>>]
             ELSE IF DirectoryEntry_is_volume_label(decoded.val)
             THEN [st EXCEPT !.lfn_parts = <<>>]
             ELSE LET plain == DirEntry_new(decoded.val)
                      long_name == LongName(st.lfn_parts)
                      dir_entry == IF st.lfn_parts # <<>> /\ long_name # <<>>
                                   THEN DirEntry_with_long_name(plain, long_name)
                                   ELSE plain
                  IN  [st EXCEPT !.entries = Append(st.entries, dir_entry),
                                 !.lfn_parts = <<>>]

RECURSIVE ScanChunks(_, _)
ScanChunks(st, chunks) ==
    IF chunks = <<>> \/ st.stop THEN st
    ELSE ScanChunks(ScanChunk(st, Head(chunks)), Tail(chunks))

Directory_read_entries(data) ==
    Ok(ScanChunks([entries |-> <<>>, lfn_parts |-> <<>>, stop |-> FALSE],
                  Chunks(data)).entries)

\* Lines 121-139: whether the record of one slot answers the name.
ChunkMatches(chunk, name) ==
    LET decoded == DirectoryEntry_from_bytes(chunk)
        entry_name == DirectoryEntry_short_name(decoded.val)
    IN  /\ decoded.ok
        /\ entry_name.ok
        /\ (entry_name.val = name \/ EqIgnoreAsciiCase(entry_name.val, name))

RECURSIVE FindIn(_, _)
FindIn(chunks, name) ==
    IF chunks = <<>> \/ Head(chunks)[1] = EndMarker THEN None
    ELSE IF Head(chunks)[1] = DeletedMarker THEN FindIn(Tail(chunks), name)
    ELSE IF ChunkMatches(Head(chunks), name)
    THEN Some(DirectoryEntry_from_bytes(Head(chunks)).val)
    ELSE FindIn(Tail(chunks), name)

Directory_find_entry(data, name) == Ok(FindIn(Chunks(data), name))

-----------------------------------------------------------------------------
(* fs/fat.rs: Fat32Fs.                                                     *)

\* Fat32Fs::new: the fields of the constructed navigator, or the error.
Fat32Fs_new(data) ==
    AndThen(BootSector_from_bytes(data), LAMBDA bs :
    AndThen(MulU32(BootSector_fat_start_sector(bs), BootSector_bytes_per_sector(bs)),
            LAMBDA fat_start :
    AndThen(MulU32(BootSector_sectors_per_fat(bs), BootSector_bytes_per_sector(bs)),
            LAMBDA fat_size :
        IF fat_start + fat_size > Len(data)
        THEN Err("InvalidFat", "FAT table out of bounds", <<>>)
        ELSE AndThen(FatTable_from_bytes(Slice(data, fat_start, fat_start + fat_size)),
                     LAMBDA table :
                 Ok([boot_sector |-> bs, fat_table |-> table,
                     current_path |-> Path_root, device_data |-> data])))))

Fat32Fs_get_cluster_chain(start) == ClusterChain_new(fat_table, start)

\* A read that reports a cluster outside the image as a chain error.
Fat32Fs_read_cluster_AsChainError(cluster) ==
    LET cluster_size == BootSector_cluster_size(boot_sector)
        bytes_per_sector == BootSector_bytes_per_sector(boot_sector)
    IN  AndThen(BootSector_data_start_sector(boot_sector), LAMBDA data_start_sector :
        AndThen(MulU32(data_start_sector, bytes_per_sector), LAMBDA data_start :
        AndThen(SubU32(cluster, 2), LAMBDA index :
        AndThen(MulU32(index, BootSector_sectors_per_cluster(boot_sector)),
                LAMBDA sectors :
        AndThen(MulU32(sectors, bytes_per_sector), LAMBDA cluster_offset :
        AndThen(AddU32(data_start, cluster_offset), LAMBDA offset :
            IF offset + cluster_size > Len(device_data)
            THEN Err("ClusterChainError", "Cluster out of bounds", <<>>)
            ELSE Ok(Slice(device_data, offset, offset + cluster_size))))))))

Fat32Fs_read_cluster(cluster) ==
    LET cluster_size == BootSector_cluster_size(boot_sector)
        bytes_per_sector == BootSector_bytes_per_sector(boot_sector)
    IN  AndThen(BootSector_data_start_sector(boot_sector), LAMBDA data_start_sector :
        AndThen(MulU32(data_start_sector, bytes_per_sector), LAMBDA data_start :
        AndThen(SubU32(cluster, 2), LAMBDA index :
        AndThen(MulU32(index, BootSector_sectors_per_cluster(boot_sector)),
                LAMBDA sectors :
        AndThen(MulU32(sectors, bytes_per_sector), LAMBDA cluster_offset :
        AndThen(AddU32(data_start, cluster_offset), LAMBDA offset :
            IF offset + cluster_size > Len(device_data)
            THEN Err("IoError", "Cluster out of bounds", <<>>)
            ELSE Ok(Slice(device_data, offset, offset + cluster_size))))))))

\* The loop every operation runs over a chain: the bytes of its clusters, in
\* chain order, or the error of the first cluster that cannot be read.
RECURSIVE ReadClusters(_)
ReadClusters(clusters) ==
    IF clusters = <<>> THEN Ok(<<>>)
    ELSE AndThen(Fat32Fs_read_cluster(Head(clusters)), LAMBDA cluster_data :
         AndThen(ReadClusters(Tail(clusters)), LAMBDA rest :
             Ok(cluster_data \o rest)))

\* get_cluster_chain(c)? followed by that loop.
ReadChain(start) ==
    AndThen(Fat32Fs_get_cluster_chain(start), LAMBDA clusters : ReadClusters(clusters))

\* Lines 83-112: the loop of get_directory_cluster over the components left.
RECURSIVE WalkComponents_NoZeroCheck(_, _)
WalkComponents_NoZeroCheck(current_cluster, components) ==
    IF components = <<>> THEN Ok(current_cluster)
    ELSE LET component == Head(components)
         IN  AndThen(ReadChain(current_cluster), LAMBDA directory_data :
             LET found == Directory_find_entry(directory_data, component).val
             IN  IF ~found.some
                 THEN Err("DirectoryNotFound", "Directory not found: ", component)
                 ELSE IF ~DirectoryEntry_is_directory(found.val)
                 THEN Err("DirectoryNotFound", "Not a directory: ", component)
                 ELSE WalkComponents_NoZeroCheck(
                          DirectoryEntry_first_cluster(found.val), Tail(components)))

RECURSIVE WalkComponents(_, _)
WalkComponents(current_cluster, components) ==
    IF components = <<>> THEN Ok(current_cluster)
    ELSE LET component == Head(components)
         IN  AndThen(ReadChain(current_cluster), LAMBDA directory_data :
             LET found == Directory_find_entry(directory_data, component).val
             IN  IF ~found.some
                 THEN Err("DirectoryNotFound", "Directory not found: ", component)
                 ELSE IF ~DirectoryEntry_is_directory(found.val)
                 THEN Err("DirectoryNotFound", "Not a directory: ", component)
                 ELSE IF DirectoryEntry_first_cluster(found.val) = 0
                 THEN Err("DirectoryNotFound", "Invalid directory cluster", <<>>)
                 ELSE WalkComponents(DirectoryEntry_first_cluster(found.val),
                                     Tail(components)))

Fat32Fs_get_directory_cluster(path) ==
    IF Path_is_root(path) THEN Ok(BootSector_root_cluster(boot_sector))
    ELSE WalkComponents(BootSector_root_cluster(boot_sector), path.components)

\* A relative argument taken from the root instead of the current path.
TargetPath_FromRoot(cur, path) ==
    LET parsed == Path_new(path)
    IN  IF ~parsed.ok THEN FromPathError(parsed)
        ELSE IF StartsWithSlash(path) THEN parsed
        ELSE Path_join(Path_root, parsed.val)

\* The first statement of list, read_file, cd, create_file and write_file: the
\* path the argument names, seen from the current path `cur`.
TargetPath(cur, path) ==
    IF StartsWithSlash(path)
    THEN LET parsed == Path_new(path)
         IN  IF parsed.ok THEN parsed ELSE FromPathError(parsed)
    ELSE LET parsed == Path_new(path)
         IN  IF parsed.ok THEN Path_join(cur, parsed.val) ELSE FromPathError(parsed)

list(cur, path) ==
    AndThen(TargetPath(cur, path), LAMBDA target_path :
    AndThen(Fat32Fs_get_directory_cluster(target_path), LAMBDA dir_cluster :
    AndThen(ReadChain(dir_cluster), LAMBDA directory_data :
        Directory_read_entries(directory_data))))

\* The content without the early return on a first cluster of 0.
FileContent_NoEmptyShortcut(entry) ==
    AndThen(ReadChain(DirectoryEntry_first_cluster(entry)), LAMBDA file_data :
    LET file_size == DirectoryEntry_file_size(entry)
    IN  IF Len(file_data) > file_size
        THEN Ok(SubSeq(file_data, 1, file_size))
        ELSE Ok(file_data))

\* The content without the cut to the recorded size.
FileContent_NoTruncate(entry) ==
    LET first_cluster == DirectoryEntry_first_cluster(entry)
    IN  IF first_cluster = 0 THEN Ok(<<>>) ELSE ReadChain(first_cluster)

\* Lines 192-214 of read_file: the content of the file a found record names.
FileContent(entry) ==
    LET first_cluster == DirectoryEntry_first_cluster(entry)
    IN  IF first_cluster = 0 THEN Ok(<<>>)
        ELSE AndThen(ReadChain(first_cluster), LAMBDA file_data :
             LET file_size == DirectoryEntry_file_size(entry)
             IN  IF Len(file_data) > file_size
                 THEN Ok(SubSeq(file_data, 1, file_size))
                 ELSE Ok(file_data))

read_file(cur, path) ==
    AndThen(TargetPath(cur, path), LAMBDA target_path :
    LET file_name == Path_file_name(target_path)
        parent_path == Path_parent(target_path)
        path_str == Path_to_string(target_path)
    IN  IF ~file_name.some THEN Err("FileNotFound", "", path_str)
        ELSE IF ~parent_path.some THEN Err("DirectoryNotFound", "Root directory", <<>>)
        ELSE AndThen(Fat32Fs_get_directory_cluster(parent_path.val),
                     LAMBDA parent_cluster :
             AndThen(ReadChain(parent_cluster), LAMBDA directory_data :
             LET found == Directory_find_entry(directory_data, file_name.val).val
             IN  IF ~found.some THEN Err("FileNotFound", "", path_str)
                 ELSE IF ~DirectoryEntry_is_file(found.val)
                 THEN Err("FileNotFound", " is not a file", path_str)
                 ELSE FileContent(found.val))))

\* A cd that falls back to the root when it fails.
CdResult_ResetOnError(cur, r) ==
    [res |-> IF r.ok THEN Ok(<<>>) ELSE r,
     current_path |-> IF r.ok THEN r.val ELSE Path_root]

\* cd: the result, and the current path the call leaves.
CdResult(cur, r) ==
    [res |-> IF r.ok THEN Ok(<<>>) ELSE r,
     current_path |-> IF r.ok THEN r.val ELSE cur]

\* A cd that takes the path it is given without resolving it on the volume.
cd_Unverified(cur, path) == CdResult(cur, TargetPath(cur, path))

cd(cur, path) ==
    CdResult(cur,
    AndThen(TargetPath(cur, path), LAMBDA target_path :
    IF Path_is_root(target_path) THEN Ok(target_path)
    ELSE AndThen(Fat32Fs_get_directory_cluster(target_path), LAMBDA dir_cluster :
         AndThen(ReadChain(dir_cluster), LAMBDA directory_data :
         LET path_str == Path_to_string(target_path)
             dir_name == Path_file_name(target_path)
             parent_path == Path_parent(target_path)
         IN  IF ~dir_name.some THEN Err("DirectoryNotFound", "", path_str)
             ELSE IF ~parent_path.some
             THEN Err("DirectoryNotFound", "Root directory", <<>>)
             ELSE AndThen(Fat32Fs_get_directory_cluster(parent_path.val),
                          LAMBDA parent_cluster :
                  AndThen(ReadChain(parent_cluster), LAMBDA parent_data :
                  LET found == Directory_find_entry(parent_data, dir_name.val).val
                  IN  IF ~found.some THEN Err("DirectoryNotFound", "", path_str)
                      ELSE IF ~DirectoryEntry_is_directory(found.val)
                      THEN Err("DirectoryNotFound", " is not a directory", path_str)
                      ELSE Ok(target_path)))))))

pwd(cur) == Path_to_string(cur)

\* create_file without the parse of its argument.
create_file_NoParse(cur, path) ==
    Err("Unsupported",
        "File creation requires FAT modification which is not yet implemented",
        <<>>)

create_file(cur, path) ==
    AndThen(TargetPath(cur, path), LAMBDA target_path :
        Err("Unsupported",
            "File creation requires FAT modification which is not yet implemented",
            <<>>))

write_file(cur, path, data) ==
    AndThen(TargetPath(cur, path), LAMBDA target_path :
        Err("Unsupported",
            "File writing requires FAT and cluster modification which is not yet implemented",
            <<>>))

-----------------------------------------------------------------------------
(* Volume images: the inputs of Fat32Fs::new.                              *)

Zeros(n) == [i \in 1..n |-> 0]
Fill(n, b) == [i \in 1..n |-> b]
Ramp(n, from) == [i \in 1..n |-> from + i]

LE16(v) == <<v % 256, v \div 256>>
LE32(v) == <<v % 256, (v \div 256) % 256, (v \div 65536) % 256, v \div 16777216>>

\* d with the bytes bs written at offset off.
Put(d, off, bs) ==
    [i \in 1..Len(d) |-> IF i > off /\ i <= off + Len(bs) THEN bs[i - off] ELSE d[i]]

PadTo(s, n) == s \o Fill(n - Len(s), Space)

\* A boot sector with the given geometry, the tag "FAT32   " and the signature.
BootBytes(bps, spc, rsc, nf, spf, root) ==
    Put(Put(Put(Put(Put(Put(Put(Put(Zeros(BootSectorSize),
        11, LE16(bps)), 13, <<spc>>), 14, LE16(rsc)), 16, <<nf>>),
        36, LE32(spf)), 44, LE32(root)),
        82, PadTo(Str(<<"F", "A", "T", "3", "2">>), 8)), 510, LE16(BootSignature))

\* A short-name record: name and extension, attributes, first cluster, size.
ShortSlot(name, ext, attr, first_cluster, size) ==
    Put(Put(Put(Put(Put(Zeros(SlotSize),
        0, PadTo(name, 8) \o PadTo(ext, 3)), 11, <<attr>>),
        20, LE16(first_cluster \div 65536)), 26, LE16(first_cluster % 65536)),
        28, LE32(size))

\* A long-name record: sequence byte, the 13 code units, type, first cluster.
LfnSlot(sequence, units, type_, first_cluster) ==
    LET all == units \o (IF Len(units) < 13 THEN <<0>> ELSE <<>>)
        padded == all \o Fill(13 - Len(all), 65535)
        bytes == Concat([i \in 1..13 |-> LE16(padded[i])])
    IN  Put(Put(Put(Put(Put(Put(Put(Zeros(SlotSize),
            0, <<sequence>>), 1, SubSeq(bytes, 1, 10)), 11, <<LfnAttribute>>),
            12, <<type_>>), 14, SubSeq(bytes, 11, 22)), 26, LE16(first_cluster)),
            28, SubSeq(bytes, 23, 26))

FatBytes(entries) == Concat([i \in 1..Len(entries) |-> LE32(entries[i])])

\* The geometry of the images: 32-byte sectors, 2 sectors (2 slots) a cluster,
\* 16 reserved sectors (the boot sector), one table of 2 sectors (16 entries),
\* so the data region starts at byte 576 with cluster 2.
ImgBoot == BootBytes(32, 2, 16, 1, 2, 2)

EOC == EndOfChainMin

\* A volume with a root directory of four clusters (2, 3, 4, 5), a directory
\* D1 (6, 11, 14) and in it a directory SUB (7); files of two clusters (F.TXT:
\* 8, 9), of a declared size beyond its chain (G.TXT: 10), without cluster
\* (E.TXT), in a bad cluster (BADF.TXT: 12) and outside the image (OOB.TXT:
\* 15); a directory whose chain is a cycle (CYC: 13) and one without cluster
\* (ZERO); a record behind the end marker (GHOST.TXT).
ImgTree ==
    ImgBoot
    \o FatBytes(<<EOC, 268435455, 3, 4, 5, EOC, 11, EOC,
                  9, EOC, EOC, 14, BadCluster, 13, EOC, EOC>>)
    \* cluster 2
    \o ShortSlot(Str(<<"V", "O", "L">>), <<>>, AttrVolumeLabel, 0, 0)
    \o LfnSlot(65, Str(<<"d", "1", "l", "o", "n", "g">>), 0, 0)
    \* cluster 3
    \o ShortSlot(Str(<<"D", "1">>), <<>>, AttrDirectory, 6, 0)
    \o Put(ShortSlot(Str(<<"O", "L", "D">>), <<>>, 32, 10, 4), 0, <<DeletedMarker>>)
    \* cluster 4
    \o ShortSlot(Str(<<"F">>), Str(<<"T", "X", "T">>), 32, 8, 70)
    \o ShortSlot(Str(<<"E">>), Str(<<"T", "X", "T">>), 32, 0, 9)
    \* cluster 5
    \o Zeros(SlotSize)
    \o ShortSlot(Str(<<"G", "H", "O", "S", "T">>), Str(<<"T", "X", "T">>), 32, 10, 3)
    \* cluster 6
    \o ShortSlot(DotDot, <<>>, AttrDirectory, 0, 0)
    \o ShortSlot(Str(<<"S", "U", "B">>), <<>>, AttrDirectory, 7, 0)
    \* cluster 7
    \o ShortSlot(DotDot, <<>>, AttrDirectory, 6, 0)
    \o ShortSlot(Str(<<"G">>), Str(<<"T", "X", "T">>), 32, 10, 200)
    \* clusters 8, 9, 10
    \o Ramp(64, 0) \o Ramp(64, 64) \o Ramp(64, 128)
    \* cluster 11
    \o ShortSlot(Str(<<"B", "A", "D", "F">>), Str(<<"T", "X", "T">>), 32, 12, 10)
    \o ShortSlot(Str(<<"C", "Y", "C">>), <<>>, AttrDirectory, 13, 0)
    \* clusters 12, 13
    \o Zeros(64) \o Zeros(64)
    \* cluster 14
    \o ShortSlot(Str(<<"Z", "E", "R", "O">>), <<>>, AttrDirectory, 0, 0)
    \o ShortSlot(Str(<<"O", "O", "B">>), Str(<<"T", "X", "T">>), 32, 15, 5)

\* A volume whose root directory is one empty cluster.
ImgEmpty ==
    ImgBoot
    \o FatBytes(<<EOC, 268435455, EOC, 0, 0, 0, 0, 0, 0, 0, 0, 0, 0, 0, 0, 0>>)
    \o Zeros(64)

\* The same volume with the root cluster marked bad: no chain starts there.
ImgBadRoot == Put(ImgEmpty, BootSectorSize + 4 * 2, LE32(BadCluster))

Images == {ImgTree, ImgEmpty, ImgBadRoot}

\* The path arguments the operations are called with.
PathArgs ==
    {<<>>,
     Str(<<"/">>),
     Str(<<".">>),
     Str(<<".", ".">>),
     Str(<<"D", "1">>),
     Str(<<"d", "1">>),
     Str(<<"/", "D", "1">>),
     Str(<<"S", "U", "B">>),
     Str(<<"/", "D", "1", "/", "S", "U", "B">>),
     Str(<<"/", "D", "1", "/", "S", "U", "B", "/", ".", ".">>),
     Str(<<"/", "D", "1", "/", ".", ".">>),
     Str(<<".", ".", "/", ".", ".">>),
     Str(<<"F", ".", "T", "X", "T">>),
     Str(<<"/", "F", ".", "T", "X", "T">>),
     Str(<<"/", "N", "O", ".", "T", "X", "T">>),
     Str(<<"/", "E", ".", "T", "X", "T">>),
     Str(<<"G", ".", "T", "X", "T">>),
     Str(<<"/", "D", "1", "/", "S", "U", "B", "/", "G", ".", "T", "X", "T">>),
     Str(<<"/", "V", "O", "L">>),
     Str(<<"/", "G", "H", "O", "S", "T", ".", "T", "X", "T">>),
     Str(<<"/", "D", "1", "/", "B", "A", "D", "F", ".", "T", "X", "T">>),
     Str(<<"/", "D", "1", "/", "C", "Y", "C">>),
     Str(<<"/", "D", "1", "/", "Z", "E", "R", "O">>),
     Str(<<"/", "D", "1", "/", "O", "O", "B", ".", "T", "X", "T">>),
     Str(<<"/", "F", ".", "T", "X", "T", "/", "X">>),
     Str(<<"/", "/", "D", "1", "/", ".", "/", "S", "U", "B", "/">>),
     Str(<<"N", "O", "/", "X">>)}

FileData == {<<>>, <<1, 2>>}

-----------------------------------------------------------------------------
(* The navigator as a state machine: one action for each operation of the  *)
(* FileSystem trait, called with any of the path arguments.                 *)

Call(op, path, res) == [op |-> op, path |-> path, res |-> res]

Init ==
    /\ \E image \in Images :
           LET made == Fat32Fs_new(image)
           IN  /\ made.ok
               /\ device_data = made.val.device_data
               /\ boot_sector = made.val.boot_sector
               /\ fat_table = made.val.fat_table
               /\ current_path = made.val.current_path
    /\ last = Call("new", <<>>, Ok(<<>>))
    /\ start_cluster = 0
    /\ chain = ChainIdle

List(path) ==
    /\ last' = Call("list", path, list(current_path, path))
    /\ UNCHANGED <<device_data, boot_sector, fat_table, current_path, chainVars>>

ReadFile(path) ==
    /\ last' = Call("read_file", path, read_file(current_path, path))
    /\ UNCHANGED <<device_data, boot_sector, fat_table, current_path, chainVars>>

Cd(path) ==
    LET done == cd(current_path, path)
    IN  /\ current_path' = done.current_path
        /\ last' = Call("cd", path, done.res)
        /\ UNCHANGED <<device_data, boot_sector, fat_table, chainVars>>

Pwd ==
    /\ last' = Call("pwd", <<>>, Ok(pwd(current_path)))
    /\ UNCHANGED <<device_data, boot_sector, fat_table, current_path, chainVars>>

CreateFile(path) ==
    /\ last' = Call("create_file", path, create_file(current_path, path))
    /\ UNCHANGED <<device_data, boot_sector, fat_table, current_path, chainVars>>

WriteFile(path, data) ==
    /\ last' = Call("write_file", path, write_file(current_path, path, data))
    /\ UNCHANGED <<device_data, boot_sector, fat_table, current_path, chainVars>>

Next ==
    \/ \E path \in PathArgs : List(path)
    \/ \E path \in PathArgs : ReadFile(path)
    \/ \E path \in PathArgs : Cd(path)
    \/ Pwd
    \/ \E path \in PathArgs : CreateFile(path)
    \/ \E path \in PathArgs, data \in FileData : WriteFile(path, data)

Spec == Init /\ [][Next]_vars

-----------------------------------------------------------------------------
(* ClusterChain::new as a state machine: the call runs on a table and a    *)
(* start cluster chosen at the start, one loop iteration a step.           *)

MaxLen == 5

\* The entries a table of n clusters is filled with: free, reserved, bad,
\* end of chain, and the links to cluster 2 .. n (n itself is out of range).
EntryValues(n) == {0, 1, BadCluster, EndOfChainMin} \cup 2..n

\* The tables of n entries; entries 0 and 1 hold the reserved values.
TablesOfLen(n) ==
    {[len |-> n,
      entries |-> [c \in 0..(n - 1) |->
                      IF c = 0 THEN EndOfChainMin
                      ELSE IF c = 1 THEN 268435455 ELSE f[c]]] :
        f \in [2..(n - 1) -> EntryValues(n)]}

\* Tables long enough to hold the clusters numbered like the markers: every
\* entry is free but those of cluster 2 and of cluster 0x0FFFFFF7.
BigTables ==
    {[len |-> BadCluster + 2, entries |-> [c \in {2, BadCluster} |-> f[c]]] :
        f \in [{2, BadCluster} -> {0, BadCluster, EndOfChainMin}]}
    \cup {[len |-> BadCluster + 2,
           entries |-> (2 :> EndOfChainMin) @@ (BadCluster :> 2)]}

ChainTables == UNION {TablesOfLen(n) : n \in 0..MaxLen} \cup BigTables

ChainStarts(t) ==
    IF t \in BigTables THEN {0, 2, BadCluster, BadCluster + 1, BadCluster + 2}
    ELSE 0..(t.len + 1)

InitChain ==
    /\ fat_table \in ChainTables
    /\ start_cluster \in ChainStarts(fat_table)
    /\ chain = ChainIdle
    /\ device_data = <<>>
    /\ boot_sector = None
    /\ current_path = Path_root
    /\ last = Call("none", <<>>, Ok(<<>>))

ChainBegin ==
    /\ chain.pc = "start"
    /\ chain' = ChainEnter(chain, start_cluster)
    /\ UNCHANGED <<fat_table, start_cluster, fsVars>>

ChainLoop ==
    /\ chain.pc = "loop"
    /\ chain' = ChainLoopBody(fat_table, chain)
    /\ UNCHANGED <<fat_table, start_cluster, fsVars>>

NextChain == ChainBegin \/ ChainLoop

\* The call is not suspended: it runs until it returns.
SpecChain == InitChain /\ [][NextChain]_vars /\ WF_vars(NextChain)

-----------------------------------------------------------------------------
(* Properties of ClusterChain::new, checked under SpecChain.               *)

\* An entry that names a next cluster: neither a marker nor below 2.
IsLink(e) == e >= 2 /\ e < EndOfChainMin /\ e # BadCluster

\* The clusters met from c by following links, c first, at most n of them.
RECURSIVE Trail(_, _, _)
Trail(t, c, n) ==
    IF n = 0 THEN <<>>
    ELSE <<c>> \o (IF c < t.len /\ IsLink(EntryAt(t, c))
                   THEN Trail(t, EntryAt(t, c), n - 1)
                   ELSE <<>>)

\* Only a listed entry is a link, so a longer trail repeats a cluster.
TrailFrom(t, c) == Trail(t, c, Cardinality(DOMAIN t.entries) + 2)

NoRepeat(s) == \A i, j \in 1..Len(s) : s[i] = s[j] => i = j

\* The links followed from start enter a cycle.
EntersCycle(t, start) == start >= 2 /\ ~NoRepeat(TrailFrom(t, start))

\* Following the links from start passes through in-range clusters only and
\* reaches an end-of-chain entry without repeating a cluster.
EndsAtEndOfChain(t, start) ==
    LET trail == TrailFrom(t, start)
        final == trail[Len(trail)]
    IN  /\ start >= 2
        /\ NoRepeat(trail)
        /\ final < t.len
        /\ EntryAt(t, final) >= EndOfChainMin

ChainDone == chain.pc = "done"

\* C2: ClusterChain::new returns, after at most table-length entry lookups,
\* and with ClusterChainError when the links followed from the start cluster
\* enter a cycle.
C2_ChainTerminates ==
    /\ <>ChainDone
    /\ [](chain.lookups <= FatTable_len(fat_table))
    /\ []((ChainDone /\ EntersCycle(fat_table, start_cluster))
            => IsErr(chain.result, "ClusterChainError"))

\* A call on a cycle has returned, having looked up as many entries as the
\* table has.
C2_Witness ==
    /\ ChainDone
    /\ EntersCycle(fat_table, start_cluster)
    /\ chain.lookups = FatTable_len(fat_table)
    /\ IsErr(chain.result, "ClusterChainError")

\* C3: on a chain that reaches an end-of-chain entry through in-range links
\* without repeating a cluster, the call succeeds with exactly the clusters
\* visited, in link order from the start cluster, and len() is their count.
C3_AcyclicChainResolved ==
    (ChainDone /\ EndsAtEndOfChain(fat_table, start_cluster))
        => /\ chain.result = Ok(TrailFrom(fat_table, start_cluster))
           /\ ClusterChain_len(chain.result.val)
                  = Len(TrailFrom(fat_table, start_cluster))
           /\ chain.result.val[1] = start_cluster

\* The chain 2 -> 3, 3 -> 4, 4 -> end has been resolved to [2, 3, 4].
C3_Witness ==
    /\ ChainDone
    /\ start_cluster = 2
    /\ EntryAt(fat_table, 2) = 3 /\ EntryAt(fat_table, 3) = 4
    /\ EntryAt(fat_table, 4) >= EndOfChainMin
    /\ chain.result = Ok(<<2, 3, 4>>)
    /\ ClusterChain_len(chain.result.val) = 3

ChainSucceeded == ChainDone /\ chain.result.ok

\* C4: a returned chain has between 1 and table-length clusters, no cluster
\* twice, and every cluster is >= 2, below the table length and not the
\* bad-cluster marker 0x0FFFFFF7.
C4_ChainWellFormed ==
    ChainSucceeded
        => LET cs == chain.result.val
           IN  /\ Len(cs) >= 1 /\ Len(cs) <= FatTable_len(fat_table)
               /\ NoRepeat(cs)
               /\ \A i \in 1..Len(cs) :
                      /\ cs[i] >= 2
                      /\ cs[i] < FatTable_len(fat_table)
                      /\ cs[i] # BadCluster

\* The clusters the table is asked about: those it holds and four beyond.
ProbedClusters(t) ==
    IF t \in BigTables THEN {0, 2, BadCluster, t.len - 1, t.len, t.len + 1}
    ELSE 0..(t.len + 3)

\* C14: get_entry(c) fails with InvalidFat for every c at or above the table
\* length and returns the stored entry for every smaller c; for an
\* out-of-range c the predicates do not fail: is_end_of_chain and
\* is_bad_cluster give true, is_free_cluster gives false.
C14_TableBounds ==
    \A c \in ProbedClusters(fat_table) :
        IF c >= FatTable_len(fat_table)
        THEN /\ IsErr(FatTable_get_entry(fat_table, c), "InvalidFat")
             /\ FatTable_is_end_of_chain(fat_table, c) = TRUE
             /\ FatTable_is_bad_cluster(fat_table, c) = TRUE
             /\ FatTable_is_free_cluster(fat_table, c) = FALSE
        ELSE FatTable_get_entry(fat_table, c)
                 = Ok(IF c \in DOMAIN fat_table.entries THEN fat_table.entries[c] ELSE 0)

\* The resolver has asked for the entry of a cluster beyond the table and
\* returned the InvalidFat it got.
C14_Witness ==
    /\ ChainDone
    /\ chain.current >= FatTable_len(fat_table)
    /\ FatTable_len(fat_table) > 2
    /\ IsErr(chain.result, "InvalidFat")
    /\ chain.result = FatTable_get_entry(fat_table, chain.current)

-----------------------------------------------------------------------------
(* Properties of the navigator, checked under Spec.                        *)

\* C1: the current path changes only in a cd that succeeds: a cd that fails
\* leaves pwd() as it was, and list, read_file, create_file, write_file and
\* pwd never change the current path.
C1_PathChangesOnlyByCd ==
    [][/\ current_path' # current_path => (last'.op = "cd" /\ last'.res.ok)
       /\ (last'.op = "cd" /\ ~last'.res.ok) => pwd(current_path') = pwd(current_path)
       /\ last'.op \in {"list", "read_file", "create_file", "write_file", "pwd"}
              => current_path' = current_path]_vars

\* A cd has failed away from the root, where falling back would show.
C1_Witness ==
    /\ last.op = "cd"
    /\ ~last.res.ok
    /\ current_path.components # <<>>

\* C5: the current path is always a normalized absolute path: no component is
\* empty, "." or "..", a ".." in the argument of cd having been resolved by
\* popping before any lookup.
C5_CurrentPathNormalized ==
    /\ current_path.absolute
    /\ \A i \in 1..Len(current_path.components) :
           /\ current_path.components[i] # <<>>
           /\ current_path.components[i] # <<Dot>>
           /\ current_path.components[i] # DotDot

\* What looking `name` up in the directory starting at `cluster` gives.
LookupIn(cluster, name) ==
    LET directory_data == ReadChain(cluster)
    IN  IF ~directory_data.ok THEN [kind |-> "unreadable"]
        ELSE LET found == Directory_find_entry(directory_data.val, name).val
             IN  IF ~found.some THEN [kind |-> "absent"]
                 ELSE IF ~BitSet(found.val.attributes, AttrDirectory)
                 THEN [kind |-> "not a directory"]
                 ELSE IF DirectoryEntry_first_cluster(found.val) = 0
                 THEN [kind |-> "cluster 0"]
                 ELSE [kind |-> "directory",
                       cluster |-> DirectoryEntry_first_cluster(found.val)]

\* What the i-th component of cs names, the components taken from the root.
RECURSIVE DirAt(_, _)
DirAt(cs, i) ==
    IF i = 0
    THEN [kind |-> "directory", cluster |-> BootSector_root_cluster(boot_sector)]
    ELSE LET parent == DirAt(cs, i - 1)
         IN  IF parent.kind = "directory" THEN LookupIn(parent.cluster, cs[i])
             ELSE [kind |-> "unreached"]

\* The paths the arguments name from the current path.
Targets ==
    {TargetPath(current_path, q).val :
        q \in {a \in PathArgs : TargetPath(current_path, a).ok}}

\* C6: get_directory_cluster gives the root cluster for the root path, with
\* no lookup; for any other path it walks the components from the root and
\* fails with DirectoryNotFound at the first component that is absent, is not
\* a directory or has first cluster 0, and otherwise succeeds with the first
\* cluster of the last component.
C6_DirectoryClusterResolved ==
    \A path \in Targets :
        LET cs == path.components
            n == Len(cs)
            r == Fat32Fs_get_directory_cluster(path)
        IN  /\ n = 0 => r = Ok(BootSector_root_cluster(boot_sector))
            /\ \A i \in 1..n :
                   /\ DirAt(cs, i).kind \in {"absent", "not a directory"}
                          => IsErr(r, "DirectoryNotFound") /\ r.arg = cs[i]
                   /\ DirAt(cs, i).kind = "cluster 0" => IsErr(r, "DirectoryNotFound")
            /\ DirAt(cs, n).kind = "directory" => r = Ok(DirAt(cs, n).cluster)
            /\ r.ok => DirAt(cs, n).kind = "directory"

\* A cd into a directory two levels down has succeeded, and an argument names
\* a directory record whose first cluster is 0.
C6_Witness ==
    /\ last.op = "cd" /\ last.res.ok
    /\ Len(current_path.components) = 2
    /\ C5_CurrentPathNormalized
    /\ Fat32Fs_get_directory_cluster(current_path).ok
    /\ \E path \in Targets :
           Len(path.components) = 2 /\ DirAt(path.components, 2).kind = "cluster 0"

\* The path the last call named.  Only cd changes the current path, so after
\* any other call it is the path the call started from.
LastTarget == TargetPath(current_path, last.path)

\* The record the last component of `path` has in its parent directory.
RecordOf(path) ==
    LET cs == path.components
        n == Len(cs)
        parent == DirAt(cs, n - 1)
    IN  IF parent.kind # "directory" THEN [kind |-> "no parent"]
        ELSE LET directory_data == ReadChain(parent.cluster)
             IN  IF ~directory_data.ok THEN [kind |-> "no parent"]
                 ELSE LET found == Directory_find_entry(directory_data.val, cs[n]).val
                      IN  IF found.some THEN [kind |-> "found", entry |-> found.val]
                          ELSE [kind |-> "absent"]

\* C7: read_file fails with FileNotFound when the path has no final component,
\* when the final component is absent from a parent directory that exists, or
\* when it names a directory or volume-label record; when the record is a file
\* with first cluster 0 the content is empty whatever the recorded size.
C7_ReadFileNotFoundOrEmpty ==
    (last.op = "read_file" /\ LastTarget.ok)
        => LET path == LastTarget.val
               record == RecordOf(path)
           IN  IF path.components = <<>> THEN IsErr(last.res, "FileNotFound")
               ELSE /\ record.kind = "absent" => IsErr(last.res, "FileNotFound")
                    /\ record.kind = "found"
                          => IF \/ BitSet(record.entry.attributes, AttrDirectory)
                                \/ BitSet(record.entry.attributes, AttrVolumeLabel)
                             THEN IsErr(last.res, "FileNotFound")
                             ELSE DirectoryEntry_first_cluster(record.entry) = 0
                                      => last.res = Ok(<<>>)

\* A file with first cluster 0 and a recorded size above 0 has been read.
C7_Witness ==
    /\ last.op = "read_file" /\ LastTarget.ok
    /\ LastTarget.val.components # <<>>
    /\ RecordOf(LastTarget.val).kind = "found"
    /\ DirectoryEntry_first_cluster(RecordOf(LastTarget.val).entry) = 0
    /\ DirectoryEntry_file_size(RecordOf(LastTarget.val).entry) > 0
    /\ last.res = Ok(<<>>)

\* The bytes of data cluster c, taken from the image by its geometry.
ClusterBytes(c) ==
    LET cluster_size == boot_sector.bytes_per_sector * boot_sector.sectors_per_cluster
        data_start == (boot_sector.reserved_sector_count
                          + boot_sector.num_fats * boot_sector.sectors_per_fat_32)
                      * boot_sector.bytes_per_sector
    IN  [i \in 1..cluster_size |-> device_data[data_start + (c - 2) * cluster_size + i]]

\* C8: a read_file that succeeds on a record with a first cluster other than 0
\* returns the bytes of the clusters of the chain, in chain order, cut to the
\* recorded size; its length is min(file_size, chain_length * cluster_size).
C8_ReadFileContent ==
    (/\ last.op = "read_file" /\ last.res.ok /\ LastTarget.ok
     /\ LastTarget.val.components # <<>>
     /\ RecordOf(LastTarget.val).kind = "found"
     /\ DirectoryEntry_first_cluster(RecordOf(LastTarget.val).entry) # 0)
        => LET entry == RecordOf(LastTarget.val).entry
               clusters == TrailFrom(fat_table, DirectoryEntry_first_cluster(entry))
               all == Concat([i \in 1..Len(clusters) |-> ClusterBytes(clusters[i])])
               file_size == DirectoryEntry_file_size(entry)
           IN  /\ Len(last.res.val)
                      = Min(file_size, Len(clusters) * BootSector_cluster_size(boot_sector))
               /\ last.res.val = SubSeq(all, 1, Len(last.res.val))

\* A file of two clusters has been read and cut inside its second cluster.
C8_Witness ==
    /\ last.op = "read_file" /\ last.res.ok /\ LastTarget.ok
    /\ RecordOf(LastTarget.val).kind = "found"
    /\ LET entry == RecordOf(LastTarget.val).entry
       IN  /\ Len(TrailFrom(fat_table, DirectoryEntry_first_cluster(entry))) = 2
           /\ Len(last.res.val) = DirectoryEntry_file_size(entry)
           /\ Len(last.res.val) > BootSector_cluster_size(boot_sector)
           /\ Len(last.res.val) < 2 * BootSector_cluster_size(boot_sector)

\* The 32-byte slots of the directory `path` names.
SlotsOf(path) ==
    Chunks(ReadChain(DirAt(path.components, Len(path.components)).cluster).val)

\* The slots before the first one whose first byte is 0x00.
BeforeEnd(slots) ==
    LET ends == {i \in 1..Len(slots) : slots[i][1] = EndMarker}
    IN  IF ends = {} THEN slots
        ELSE SubSeq(slots, 1, (CHOOSE i \in ends : \A j \in ends : i <= j) - 1)

\* A short-name record to list: not deleted, not a long-name fragment, not a
\* volume label.
Listed(slot) ==
    /\ slot[1] # DeletedMarker
    /\ slot[12] # LfnAttribute
    /\ ~BitSet(slot[12], AttrVolumeLabel)

\* C9: list returns, in on-disk order, exactly one entry per short-name record
\* before the first 0x00 slot that is not deleted, not a long-name fragment
\* and not a volume label; nothing at or after that slot is returned, so a
\* directory whose first byte is 0x00 lists as empty.
C9_ListedEntries ==
    (last.op = "list" /\ last.res.ok)
        => LET slots == SlotsOf(LastTarget.val)
               kept == SelectSeq(BeforeEnd(slots), Listed)
           IN  /\ Len(last.res.val) = Len(kept)
               /\ \A i \in 1..Len(kept) :
                      last.res.val[i].entry = DirectoryEntry_from_bytes(kept[i]).val
               /\ slots[1][1] = EndMarker => last.res.val = <<>>

\* A directory has been listed that holds a volume label, a long-name
\* fragment, a deleted record and a record behind its first 0x00 slot.
C9_Witness ==
    /\ last.op = "list" /\ last.res.ok
    /\ LET slots == SlotsOf(LastTarget.val)
       IN  /\ \E i \in 1..Len(BeforeEnd(slots)) : slots[i][1] = DeletedMarker
           /\ \E i \in 1..Len(BeforeEnd(slots)) : slots[i][12] = LfnAttribute
           /\ \E i \in 1..Len(BeforeEnd(slots)) : slots[i][12] = AttrVolumeLabel
           /\ \E i \in 1..Len(slots) : i > Len(BeforeEnd(slots)) + 1 /\ Listed(slots[i])
                                        /\ slots[i][1] # EndMarker
           /\ Len(last.res.val) = 3

\* Arguments that parse, by their first byte.
RelativeArgs == {q \in PathArgs : ~StartsWithSlash(q) /\ Path_new(q).ok}
AbsoluteArgs == {q \in PathArgs : StartsWithSlash(q)}

\* The string of the join of the current path and the relative argument q.
Joined(q) == Path_to_string(Path_join(current_path, Path_new(q).val).val)

\* C10: list, read_file and cd on a relative path give what the same operation
\* gives on the join of the current path and that path; on an absolute path
\* what they give does not depend on the current path.
C10_RelativeIsJoin ==
    /\ \A q \in RelativeArgs :
           /\ list(current_path, q) = list(current_path, Joined(q))
           /\ read_file(current_path, q) = read_file(current_path, Joined(q))
           /\ cd(current_path, q) = cd(current_path, Joined(q))
    /\ \A q \in AbsoluteArgs :
           /\ list(current_path, q) = list(Path_root, q)
           /\ read_file(current_path, q) = read_file(Path_root, q)
           /\ cd(current_path, q).res = cd(Path_root, q).res
           /\ cd(current_path, q).res.ok
                  => cd(current_path, q).current_path = cd(Path_root, q).current_path

\* Below the root, a relative argument lists a directory that the same
\* argument does not name from the root.
C10_Witness ==
    /\ current_path.components # <<>>
    /\ last.op = "list" /\ last.res.ok
    /\ last.path \in RelativeArgs
    /\ Len(last.res.val) > 0
    /\ ~list(Path_root, last.path).ok

\* C11: right after Fat32Fs::new pwd() is "/"; in every state cd("/") succeeds,
\* with no directory lookup and so even when the chain of the root cluster
\* cannot be read, and leaves pwd() at "/".
C11_CdRootAlwaysSucceeds ==
    /\ last.op = "new" => pwd(current_path) = <<Slash>>
    /\ cd(current_path, <<Slash>>).res = Ok(<<>>)
    /\ pwd(cd(current_path, <<Slash>>).current_path) = <<Slash>>
    /\ (last.op = "cd" /\ last.path = <<Slash>>)
           => last.res.ok /\ pwd(current_path) = <<Slash>>

\* cd("/") has succeeded on a volume whose root directory cannot be read.
C11_Witness ==
    /\ last.op = "cd" /\ last.path = <<Slash>> /\ last.res.ok
    /\ ~ReadChain(BootSector_root_cluster(boot_sector)).ok
    /\ pwd(current_path) = <<Slash>>

\* A path string Path::new cannot parse: the empty one, or one with a segment
\* of more than 255 bytes.
Unparsable(s) ==
    \/ s = <<>>
    \/ \E i \in 1..Len(s) : \E j \in i..Len(s) :
           j - i + 1 > MaxComponentLen /\ \A k \in i..j : s[k] # Slash

\* C12: create_file and write_file never return Ok: they fail with InvalidPath
\* when the path string cannot be parsed and with Unsupported for every path
\* string that parses, whether or not it names anything.
C12_MutationUnsupported ==
    last.op \in {"create_file", "write_file"}
        => /\ ~last.res.ok
           /\ IF Unparsable(last.path) THEN IsErr(last.res, "InvalidPath")
              ELSE IsErr(last.res, "Unsupported")

\* create_file has refused the empty path string.
C12_Witness ==
    /\ last.op = "create_file"
    /\ last.path = <<>>
    /\ IsErr(last.res, "InvalidPath")

-----------------------------------------------------------------------------
(* Decoding a boot sector and constructing the navigator over it: a buffer *)
(* is chosen at the start, then BootSector::from_bytes or Fat32Fs::new is   *)
(* called on it, and the root is listed once a navigator exists.           *)

\* The buffer b cut, or padded with zeros, to n bytes.
Resized(b, n) == [i \in 1..n |-> IF i <= Len(b) THEN b[i] ELSE 0]

\* Well-formed boot sectors: sector sizes 0, 32 and 512, clusters of 0, 1 and
\* 2 sectors, tables of 1 sector and of 2^23 sectors.
GeometryBuffers ==
    {BootBytes(bps, spc, rsc, nf, spf, 2) :
        bps \in {0, 32, 512}, spc \in {0, 1, 2}, rsc \in {1, 16}, nf \in {1, 2},
        spf \in {1, 8388608}}

BootBase == BootBytes(512, 1, 32, 2, 1, 2)

\* Buffers that differ from BootBase in one byte of the tag or of the
\* signature, or in their length.
DamagedBuffers ==
    {Put(BootBase, off, <<b>>) : off \in 82..89, b \in {0, 88}}
    \cup {Put(BootBase, off, <<b>>) : off \in {510, 511}, b \in {0, 85, 170}}
    \cup {Resized(BootBase, n) : n \in {0, 90, 511, 513}}

BootBuffers == GeometryBuffers \cup DamagedBuffers

InitBoot ==
    /\ device_data \in BootBuffers
    /\ boot_sector = None
    /\ fat_table = [len |-> 0, entries |-> <<>>]
    /\ current_path = Path_root
    /\ last = Call("none", <<>>, Ok(<<>>))
    /\ start_cluster = 0
    /\ chain = ChainIdle

BootFromBytes ==
    /\ last' = Call("BootSector::from_bytes", <<>>, BootSector_from_bytes(device_data))
    /\ UNCHANGED <<device_data, boot_sector, fat_table, current_path, chainVars>>

FsNew ==
    LET made == Fat32Fs_new(device_data)
    IN  /\ last' = Call("new", <<>>, IF made.ok THEN Ok(<<>>) ELSE made)
        /\ boot_sector' = IF made.ok THEN made.val.boot_sector ELSE boot_sector
        /\ fat_table' = IF made.ok THEN made.val.fat_table ELSE fat_table
        /\ current_path' = IF made.ok THEN made.val.current_path ELSE current_path
        /\ UNCHANGED <<device_data, chainVars>>

ListRoot ==
    /\ boot_sector # None
    /\ last' = Call("list", <<Slash>>, list(current_path, <<Slash>>))
    /\ UNCHANGED <<device_data, boot_sector, fat_table, current_path, chainVars>>

NextBoot == BootFromBytes \/ FsNew \/ ListRoot

SpecBoot == InitBoot /\ [][NextBoot]_vars

\* C13: on an image of at least 512 bytes Fat32Fs::new and every later
\* operation return Ok or a FileSystemError: no offset computation leaves the
\* range of u32 and no slice is indexed out of range.
C13_NoOverflowNoPanic ==
    (Len(device_data) >= BootSectorSize /\ last.op \in {"new", "list"})
        => (last.res.ok \/ last.res.kind \in FileSystemErrorKinds)

DecodedBootSector == last.op = "BootSector::from_bytes" /\ last.res.ok

\* C15: BootSector::from_bytes succeeds exactly on a buffer of at least 512
\* bytes with "FAT3" at offset 0x52 and 55 AA at offset 0x1FE, the other four
\* tag bytes being free, and fails with InvalidBootSector otherwise; on
\* success bytes_per_sector, sectors_per_cluster and root_cluster are the
\* little-endian values at offsets 0x0B, 0x0D and 0x2C.
C15_BootSectorAccepted ==
    last.op = "BootSector::from_bytes"
        => LET d == device_data
               accepted == /\ Len(d) >= 512
                           /\ <<d[83], d[84], d[85], d[86]>> = Str(<<"F", "A", "T", "3">>)
                           /\ d[511] = 85 /\ d[512] = 170
           IN  /\ last.res.ok <=> accepted
               /\ ~last.res.ok => IsErr(last.res, "InvalidBootSector")
               /\ last.res.ok
                      => /\ BootSector_bytes_per_sector(last.res.val) = d[12] + 256 * d[13]
                         /\ BootSector_sectors_per_cluster(last.res.val) = d[14]
                         /\ BootSector_root_cluster(last.res.val)
                                = d[45] + 256 * (d[46] + 256 * (d[47] + 256 * d[48]))

\* A sector of 512-byte sectors, 1 sector a cluster and root cluster 2 has been
\* decoded, its tag ending in a byte other than that of "FAT32   ".
C15_Witness ==
    /\ DecodedBootSector
    /\ device_data[87] # 50
    /\ BootSector_bytes_per_sector(last.res.val) = 512
    /\ BootSector_sectors_per_cluster(last.res.val) = 1
    /\ BootSector_root_cluster(last.res.val) = 2

\* C16: every geometry BootSector::from_bytes accepts, and so every geometry
\* of a constructed Fat32Fs, has cluster_size = bytes_per_sector *
\* sectors_per_cluster > 0.
C16_ClusterSizePositive ==
    /\ DecodedBootSector
           => /\ BootSector_cluster_size(last.res.val)
                     = (device_data[12] + 256 * device_data[13]) * device_data[14]
              /\ BootSector_cluster_size(last.res.val) > 0
    /\ (last.op = "new" /\ last.res.ok) => BootSector_cluster_size(boot_sector) > 0

-----------------------------------------------------------------------------
(* Paths: strings are parsed by Path::new, the path at hand is joined with *)
(* a parsed path by Path::join and rendered by Path::to_string.            *)
(* current_path holds the path at hand.                                    *)

\* The most components a joined path is let grow to.
MaxComponents == 3

LongestComponent == Fill(MaxComponentLen, 120)
TooLongComponent == Fill(MaxComponentLen + 1, 120)

PathStrings ==
    {<<>>,
     Str(<<"/">>),
     Str(<<"a">>),
     Str(<<"/", "a">>),
     Str(<<"/", "a", "/", "b">>),
     Str(<<"a", "/", "b">>),
     Str(<<"/", "a", "/", "b", "/", "c">>),
     Str(<<".", ".">>),
     Str(<<".", ".", "/", ".", ".", "/", "c">>),
     Str(<<".">>),
     Str(<<".", ".", ".">>),
     Str(<<"/", ".", ".">>),
     Str(<<"/", "a", "/">>),
     Str(<<"/", "a", "/", "/", "b">>),
     Str(<<"/", "a", "/", ".", "/", "b">>),
     Str(<<"/", "a", "/", ".", ".", "/", "b">>),
     Str(<<"a", "/", "/", ".", "/", ".", ".", "/", "b", "/">>),
     <<Slash>> \o LongestComponent,
     TooLongComponent,
     Str(<<"/", "a", "/">>) \o TooLongComponent,
     TooLongComponent \o Str(<<"/", ".", ".">>)}

InitPath ==
    /\ current_path = Path_root
    /\ last = Call("none", <<>>, Ok(<<>>))
    /\ device_data = <<>>
    /\ boot_sector = None
    /\ fat_table = [len |-> 0, entries |-> <<>>]
    /\ start_cluster = 0
    /\ chain = ChainIdle

PathNew(path_str) ==
    LET parsed == Path_new(path_str)
    IN  /\ last' = Call("Path::new", path_str, parsed)
        /\ current_path' = IF parsed.ok THEN parsed.val ELSE current_path
        /\ UNCHANGED <<device_data, boot_sector, fat_table, chainVars>>

PathJoin(path_str) ==
    /\ Path_new(path_str).ok
    /\ LET other == Path_new(path_str).val
           joined == Path_join(current_path, other)
       IN  /\ joined.ok => Len(joined.val.components) <= MaxComponents
           /\ last' = Call("Path::join", <<current_path, other>>, joined)
           /\ current_path' = IF joined.ok THEN joined.val ELSE current_path
    /\ UNCHANGED <<device_data, boot_sector, fat_table, chainVars>>

PathToString ==
    /\ last' = Call("Path::to_string", current_path, Ok(Path_to_string(current_path)))
    /\ UNCHANGED <<device_data, boot_sector, fat_table, current_path, chainVars>>

PathBufPush(component) ==
    LET pushed == PathBuf_push(current_path, component)
    IN  /\ Len(pushed.path.components) <= MaxComponents
        /\ last' = Call("PathBuf::push", <<current_path, component>>, pushed.res)
        /\ current_path' = pushed.path
        /\ UNCHANGED <<device_data, boot_sector, fat_table, chainVars>>

PathBufPop ==
    LET popped == PathBuf_pop(current_path)
    IN  /\ last' = Call("PathBuf::pop", current_path, Ok(popped.res))
        /\ current_path' = popped.path
        /\ UNCHANGED <<device_data, boot_sector, fat_table, chainVars>>

NextPath ==
    \/ \E path_str \in PathStrings : PathNew(path_str)
    \/ \E path_str \in PathStrings : PathJoin(path_str)
    \/ PathToString
    \/ \E component \in PathStrings : PathBufPush(component)
    \/ PathBufPop

SpecPath == InitPath /\ [][NextPath]_vars

\* The segments of s between its separators, the empty ones included.
Segments(s) ==
    LET slashes == {i \in 1..Len(s) : s[i] = Slash}
        cut(k) == IF k = 0 THEN 0
                  ELSE IF k > Cardinality(slashes) THEN Len(s) + 1
                  ELSE CHOOSE i \in slashes : Cardinality({j \in slashes : j < i}) = k - 1
    IN  [k \in 1..(Cardinality(slashes) + 1) |-> SubSeq(s, cut(k - 1) + 1, cut(k) - 1)]

Retained(seg) == seg # <<>> /\ seg # <<Dot>>

ParsedPath == last.op = "Path::new" /\ last.res.ok

\* C17: Path::new("") fails with Empty; a path it accepts is absolute exactly
\* when the string starts with '/', and its components are the segments of
\* the string in order, less the empty ones and the `.` ones, the `..` ones
\* kept: no component of a parsed path is empty or `.`.
C17_ParsedComponents ==
    /\ (last.op = "Path::new" /\ last.path = <<>>) => IsErr(last.res, "Empty")
    /\ ParsedPath
           => /\ last.path # <<>>
              /\ Path_is_absolute(last.res.val) <=> last.path[1] = Slash
              /\ last.res.val.components = SelectSeq(Segments(last.path), Retained)
              /\ \A i \in 1..Len(last.res.val.components) :
                     /\ last.res.val.components[i] # <<>>
                     /\ last.res.val.components[i] # <<Dot>>

\* A relative string with an empty segment, a `.` segment and a `..` segment
\* has been parsed, and the `..` kept.
C17_Witness ==
    /\ ParsedPath
    /\ ~Path_is_absolute(last.res.val)
    /\ \E i \in 1..Len(Segments(last.path)) : Segments(last.path)[i] = <<>>
    /\ \E i \in 1..Len(Segments(last.path)) : Segments(last.path)[i] = <<Dot>>
    /\ \E i \in 1..Len(last.res.val.components) : last.res.val.components[i] = DotDot

\* C18: Path::new fails with ComponentTooLong, which the navigator turns into
\* InvalidPath "Path component too long", whenever a segment it retains is
\* longer than 255 bytes.
C18_TooLongRejected ==
    (/\ last.op = "Path::new"
     /\ \E i \in 1..Len(Segments(last.path)) :
            Len(Segments(last.path)[i]) > MaxComponentLen)
        => /\ IsErr(last.res, "ComponentTooLong")
           /\ FromPathError(last.res) = Err("InvalidPath", "Path component too long", <<>>)

\* Popping written as rewriting: the first `..` goes, with the component
\* before it when there is one, until no `..` is left.
RECURSIVE Popped(_)
Popped(cs) ==
    LET dots == {i \in 1..Len(cs) : cs[i] = DotDot}
        first == CHOOSE i \in dots : \A j \in dots : i <= j
    IN  IF dots = {} THEN cs
        ELSE Popped(SubSeq(cs, 1, first - 2) \o SubSeq(cs, first + 1, Len(cs)))

\* C19: Path::join never fails; it returns `other` when that is absolute, and
\* otherwise a path with the absolute flag of the base whose components are
\* those of the base followed by those of `other`, every `..` having removed
\* the nearest component left before it, or nothing; joining the root with
\* `..` gives the root.
C19_JoinResolves ==
    last.op = "Path::join"
        => LET base == last.path[1]
               other == last.path[2]
           IN  /\ last.res.ok
               /\ Path_is_absolute(other) => last.res.val = other
               /\ ~Path_is_absolute(other)
                      => /\ last.res.val.absolute = base.absolute
                         /\ last.res.val.components
                                = Popped(base.components \o other.components)
               /\ (base = Path_root /\ other = [components |-> <<DotDot>>,
                                                absolute |-> FALSE])
                      => last.res.val = Path_root

\* /a/b has been joined with ../../c, and the result is /c.
C19_Witness ==
    /\ last.op = "Path::join"
    /\ Path_to_string(last.path[1]) = Str(<<"/", "a", "/", "b">>)
    /\ Path_to_string(last.path[2]) = Str(<<".", ".", "/", ".", ".", "/", "c">>)
    /\ last.res.ok
    /\ Path_to_string(last.res.val) = Str(<<"/", "c">>)

\* An absolute path string in normal form: no empty, `.` or `..` segment
\* after the leading separator, none longer than 255 bytes, no trailing
\* separator.
Normalized(s) ==
    /\ s # <<>> /\ s[1] = Slash
    /\ \/ s = <<Slash>>
       \/ \A i \in 2..Len(Segments(s)) :
              /\ Retained(Segments(s)[i])
              /\ Segments(s)[i] # DotDot
              /\ Len(Segments(s)[i]) <= MaxComponentLen

\* C20: Path::new accepts every normalized absolute path string and
\* to_string gives the string back; the root is rendered as "/".
C20_RoundTrip ==
    /\ (last.op = "Path::new" /\ Normalized(last.path))
           => last.res.ok /\ Path_to_string(last.res.val) = last.path
    /\ (last.op = "Path::to_string" /\ last.path = Path_root)
           => last.res.val = <<Slash>>

\* A normalized string of three components has been parsed and is rendered
\* as it was written.
C20_Witness ==
    /\ ParsedPath
    /\ Normalized(last.path)
    /\ Len(last.res.val.components) = 3
    /\ Path_to_string(current_path) = last.path

\* A string that names one plain component: no separator in it, and neither
\* empty nor `.` nor `..`.
PlainComponent(s) ==
    /\ s # <<>> /\ s # <<Dot>> /\ s # DotDot
    /\ \A i \in 1..Len(s) : s[i] # Slash

\* C21: Path::parent is None exactly when the path has no component, and
\* otherwise the same path less its last component; Path::file_name is the
\* last component, or None; PathBuf::pop puts the parent in the buffer and
\* returns true, or returns false and leaves the buffer alone when there is no
\* component; popping after the push of one plain component gives back the
\* path the buffer held before the push.
C21_ParentAndPop ==
    /\ last.op = "PathBuf::pop"
           => LET before == last.path
                  parent == Path_parent(before)
                  file_name == Path_file_name(before)
              IN  /\ parent.some <=> before.components # <<>>
                  /\ file_name.some <=> before.components # <<>>
                  /\ before.components = <<>>
                         => last.res.val = FALSE /\ current_path = before
                  /\ before.components # <<>>
                         => /\ last.res.val = TRUE
                            /\ current_path = parent.val
                            /\ current_path.absolute = before.absolute
                            /\ current_path.components \o <<file_name.val>>
                                   = before.components
    /\ (last.op = "PathBuf::push" /\ last.res.ok /\ PlainComponent(last.path[2]))
           => /\ Path_file_name(current_path) = Some(last.path[2])
              /\ PathBuf_pop(current_path) = [path |-> last.path[1], res |-> TRUE]

\* C29: for every string Path::new accepts, the rendering of the parsed path
\* is a non-empty string that Path::new accepts again, and that parses to the
\* same path: the same absolute flag and the same components.  The strings
\* that leave a relative path with no component, such as ".", are included.
C29_RenderingParsesBack ==
    ParsedPath
        => LET rendered == Path_to_string(last.res.val)
               again == Path_new(rendered)
           IN  /\ rendered # <<>>
               /\ again.ok
               /\ again.val.absolute = last.res.val.absolute
               /\ again.val.components = last.res.val.components

OutOfImage(c) ==
    LET cluster_size == boot_sector.bytes_per_sector * boot_sector.sectors_per_cluster
        data_start == (boot_sector.reserved_sector_count
                          + boot_sector.num_fats * boot_sector.sectors_per_fat_32)
                      * boot_sector.bytes_per_sector
    IN  data_start + (c - 2) * cluster_size + cluster_size > Len(device_data)

C30_CursorResolves ==
    current_path # Path_root
        => /\ list(current_path, pwd(current_path)).ok
           /\ cd(current_path, pwd(current_path)).res.ok
           /\ pwd(cd(current_path, pwd(current_path)).current_path)
                  = pwd(current_path)

\* cd has just moved the current path two directories below the root, and
\* the listing of pwd() succeeds there.
C30_Witness ==
    /\ last.op = "cd" /\ last.res.ok
    /\ Len(current_path.components) >= 2
    /\ list(current_path, pwd(current_path)).ok

-----------------------------------------------------------------------------
(* The directory decoders on their own: DirectoryEntry::from_bytes,        *)
(* Directory::read_entries and Directory::find_entry applied to directory  *)
(* buffers.  device_data holds the buffer; the other variables stay as     *)
(* InitDir leaves them.                                                    *)

FileSlot(name, ext) == ShortSlot(name, ext, 32, 3, 5)

DeletedSlot == Put(FileSlot(Str(<<"O", "L", "D">>), <<>>), 0, <<DeletedMarker>>)

Alphabet13 == Str(<<"a", "b", "c", "d", "e", "f", "g", "h", "i", "j", "k", "l", "m">>)
Digits13 == Str(<<"0", "1", "2", "3", "4", "5", "6", "7", "8", "9", "-", "_", "+">>)

\* Two plain records, a file and a directory.
DirPlain ==
    FileSlot(Str(<<"A">>), Str(<<"T", "X", "T">>))
    \o ShortSlot(Str(<<"S", "U", "B">>), <<>>, AttrDirectory, 4, 0)

\* A long name of one fragment and its short record.
DirLong1 ==
    LfnSlot(65, Str(<<"h", "e", "l", "l", "o", ".", "t", "x", "t">>), 0, 0)
    \o FileSlot(Str(<<"H", "E", "L", "L", "O", "~", "1">>), Str(<<"T", "X", "T">>))

\* "abcdefghijklmnop" in two fragments, the last one first.
DirLong2 ==
    LfnSlot(66, Str(<<"n", "o", "p">>), 0, 0)
    \o LfnSlot(1, Alphabet13, 0, 0)
    \o FileSlot(Str(<<"A", "B", "C", "D", "E", "F", "~", "1">>), <<>>)

\* A long name of three fragments behind a plain record.
DirLong3 ==
    FileSlot(Str(<<"A">>), Str(<<"T", "X", "T">>))
    \o LfnSlot(67, Str(<<"z">>), 0, 0)
    \o LfnSlot(2, Digits13, 0, 0)
    \o LfnSlot(1, Alphabet13, 0, 0)
    \o FileSlot(Str(<<"L", "O", "N", "G", "~", "1">>), <<>>)

\* A fragment, then a deleted record, then a live one.
DirDeleted ==
    LfnSlot(65, Str(<<"g", "o", "n", "e">>), 0, 0)
    \o DeletedSlot
    \o FileSlot(Str(<<"B">>), Str(<<"T", "X", "T">>))

\* A fragment, then a volume label D1, then a directory D1.
DirLabel ==
    LfnSlot(65, Str(<<"l", "a", "b">>), 0, 0)
    \o ShortSlot(Str(<<"D", "1">>), <<>>, AttrVolumeLabel, 0, 0)
    \o ShortSlot(Str(<<"D", "1">>), <<>>, AttrDirectory, 6, 0)

\* A fragment and two records: the second record has no fragment of its own.
DirTwo ==
    LfnSlot(65, Str(<<"f", "i", "r", "s", "t">>), 0, 0)
    \o FileSlot(Str(<<"O", "N", "E">>), <<>>)
    \o FileSlot(Str(<<"T", "W", "O">>), <<>>)

\* A valid fragment, then one with a type field of 1, then the record.
DirBadType ==
    LfnSlot(65, Str(<<"a", "b">>), 0, 0)
    \o LfnSlot(1, Str(<<"z", "z">>), 1, 0)
    \o FileSlot(Str(<<"C">>), <<>>)

\* A fragment with a first-cluster field of 7, then two records.
DirBadCluster ==
    LfnSlot(65, Str(<<"q">>), 0, 7)
    \o FileSlot(Str(<<"Q">>), <<>>)
    \o FileSlot(Str(<<"O", "K">>), <<>>)

\* A record behind the end marker.
DirEnd ==
    FileSlot(Str(<<"A">>), Str(<<"T", "X", "T">>))
    \o Zeros(SlotSize)
    \o FileSlot(Str(<<"G", "H", "O", "S", "T">>), <<>>)

\* A record and ten bytes more: not a whole number of slots.
DirPartial == FileSlot(Str(<<"A">>), Str(<<"T", "X", "T">>)) \o Fill(10, 65)

\* A name with a space inside it, and an extension with a space inside it.
DirSpace ==
    FileSlot(Str(<<"A", " ", "B">>), Str(<<"T", "X", "T">>))
    \o FileSlot(Str(<<"C">>), Str(<<"T", " ", "T">>))
    \o FileSlot(Str(<<"A">>), Str(<<"T", "X", "T">>))

\* A name that is not UTF-8, then a plain record.
DirNotUtf8 ==
    FileSlot(<<255, 254>>, <<>>)
    \o FileSlot(Str(<<"O", "K">>), <<>>)

\* A fragment with the sequence byte 'A' and thirteen U+2020 units, whose
\* bytes read as the short name "A", then a directory A.
DirDagger ==
    LfnSlot(65, Fill(13, 8224), 0, 0)
    \o ShortSlot(Str(<<"A">>), <<>>, AttrDirectory, 6, 0)

\* A long name with a unit above 0x7F: U+00E9, then 'a'.
DirAccent ==
    LfnSlot(65, <<233, 97>>, 0, 0)
    \o FileSlot(Str(<<"E", "A">>), <<>>)

DirBuffers ==
    {<<>>, DirPlain, DirLong1, DirLong2, DirLong3, DirDeleted, DirLabel, DirTwo,
     DirBadType, DirBadCluster, DirEnd, DirPartial, DirSpace, DirNotUtf8,
     DirDagger, DirAccent}

\* The slices from_bytes is called with: every slot of the buffer, the buffer
\* itself, and slices shorter than a slot.
DirSlices(data) ==
    {Chunks(data)[i] : i \in 1..Len(Chunks(data))}
        \cup {data, <<>>, SubSeq(data, 1, Min(Len(data), SlotSize - 1))}

\* The names find_entry is called with.
DirNames ==
    {Str(<<"A", ".", "T", "X", "T">>),
     Str(<<"a", ".", "t", "x", "t">>),
     Str(<<"A", " ", "B", ".", "T", "X", "T">>),
     Str(<<"A">>),
     Str(<<"D", "1">>),
     Str(<<"s", "u", "b">>),
     Str(<<"h", "e", "l", "l", "o", ".", "t", "x", "t">>),
     Str(<<"H", "E", "L", "L", "O", "~", "1", ".", "T", "X", "T">>),
     Str(<<"C", ".", "T", "T">>),
     Str(<<"G", "H", "O", "S", "T">>),
     Str(<<"O", "K">>),
     Str(<<"O", "L", "D">>)}

InitDir ==
    /\ device_data \in DirBuffers
    /\ last = Call("none", <<>>, Ok(<<>>))
    /\ current_path = Path_root
    /\ boot_sector = None
    /\ fat_table = [len |-> 0, entries |-> <<>>]
    /\ start_cluster = 0
    /\ chain = ChainIdle

DirFromBytes(data) ==
    /\ last' = Call("DirectoryEntry::from_bytes", data, DirectoryEntry_from_bytes(data))
    /\ UNCHANGED <<device_data, boot_sector, fat_table, current_path, chainVars>>

DirReadEntries ==
    /\ last' = Call("Directory::read_entries", <<>>, Directory_read_entries(device_data))
    /\ UNCHANGED <<device_data, boot_sector, fat_table, current_path, chainVars>>

DirFindEntry(name) ==
    /\ last' = Call("Directory::find_entry", name, Directory_find_entry(device_data, name))
    /\ UNCHANGED <<device_data, boot_sector, fat_table, current_path, chainVars>>

NextDir ==
    \/ \E data \in DirSlices(device_data) : DirFromBytes(data)
    \/ DirReadEntries
    \/ \E name \in DirNames : DirFindEntry(name)

SpecDir == InitDir /\ [][NextDir]_vars

\* C22: DirectoryEntry::from_bytes fails with DirectoryEntryError exactly when
\* the slice is shorter than 32 bytes or starts with 0x00 or 0xE5; on a
\* decoded record is_directory is attribute bit 0x10, is_volume_label is bit
\* 0x08, is_file holds exactly when neither is set, file_size is the 32-bit
\* little-endian value at bytes 28..32 and first_cluster is
\* (first_cluster_high << 16) | first_cluster_low.  The two numbers are
\* compared where they are below 2^31, and the size bytes everywhere.
C22_DecodedRecord ==
    last.op = "DirectoryEntry::from_bytes"
        => LET data == last.path
               rejected == \/ Len(data) < 32
                           \/ data[1] = 0 \/ data[1] = 229
           IN  /\ ~last.res.ok <=> rejected
               /\ ~last.res.ok => last.res.kind = "DirectoryEntryError"
               /\ last.res.ok
                      => LET e == last.res.val
                             attr == data[12]
                             high == data[21] + 256 * data[22]
                             low == data[27] + 256 * data[28]
                         IN  /\ DirectoryEntry_is_directory(e) <=> (attr \div 16) % 2 = 1
                             /\ DirectoryEntry_is_volume_label(e) <=> (attr \div 8) % 2 = 1
                             /\ DirectoryEntry_is_file(e)
                                    <=> (attr \div 16) % 2 = 0 /\ (attr \div 8) % 2 = 0
                             /\ e.file_size = <<data[29], data[30], data[31], data[32]>>
                             /\ data[32] < 128
                                    => DirectoryEntry_file_size(e)
                                           = data[29] + 256 * data[30] + 65536 * data[31]
                                                 + 16777216 * data[32]
                             /\ high < 32768
                                    => DirectoryEntry_first_cluster(e) = high * 65536 + low

\* The record of directory D1 has been decoded: a directory, not a file, with
\* first cluster 6.
C22_Witness ==
    /\ last.op = "DirectoryEntry::from_bytes"
    /\ last.res.ok
    /\ DirectoryEntry_is_directory(last.res.val)
    /\ ~DirectoryEntry_is_file(last.res.val)
    /\ DirectoryEntry_first_cluster(last.res.val) = 6

\* The slots of the buffer that the scan reaches.
ScannedSlots == BeforeEnd(Chunks(device_data))

\* The index in slots of the j-th record that is listed.
NthListed(slots, j) ==
    CHOOSE k \in 1..Len(slots) :
        /\ Listed(slots[k])
        /\ Cardinality({i \in 1..(k - 1) : Listed(slots[i])}) = j - 1

\* A slot that ends a run of fragments: a deleted record, or any record that
\* is not a long-name one (a short record, a volume label).
EndsRun(slot) == slot[1] = DeletedMarker \/ slot[12] # LfnAttribute

\* A long-name fragment with a type field and a first-cluster field of 0.
ValidFragment(slot) ==
    /\ slot[1] # DeletedMarker
    /\ slot[12] = LfnAttribute
    /\ slot[13] = 0
    /\ slot[27] = 0 /\ slot[28] = 0

\* The indices, ascending, of the valid fragments between slot k and the
\* nearest slot before it that ends a run.
FragmentsBefore(slots, k) ==
    LET ends == {i \in 1..(k - 1) : EndsRun(slots[i])}
        from == IF ends = {} THEN 0 ELSE CHOOSE i \in ends : \A j \in ends : j <= i
    IN  SelectSeq([i \in 1..(k - 1) |-> i],
                  LAMBDA i : i > from /\ ValidFragment(slots[i]))

\* The 13 code units of a long-name slot, in the order name1, name2, name3.
UnitsOf(slot) ==
    [i \in 1..13 |->
        LET off == IF i <= 5 THEN 1 + 2 * (i - 1)
                   ELSE IF i <= 11 THEN 14 + 2 * (i - 6)
                   ELSE 28 + 2 * (i - 12)
        IN  slot[off + 1] + 256 * slot[off + 2]]

\* C24: the long name of a listed entry is built only from the valid
\* fragments between its short record and the nearest record before it that
\* is a short record, a deleted record or a volume label: it is the
\* characters of those fragments, each fragment whole, in some order.  A
\* record with no such fragment is listed with no long name and displays its
\* short name.
C24_LongNameWindow ==
    last.op = "Directory::read_entries"
        => \A j \in 1..Len(last.res.val) :
               LET listed == last.res.val[j]
                   slots == ScannedSlots
                   frs == FragmentsBefore(slots, NthListed(slots, j))
                   n == Len(frs)
               IN  /\ n = 0
                          => /\ listed.long_name = None
                             /\ DirEntry_name(listed)
                                    = DirectoryEntry_short_name(listed.entry)
                   /\ listed.long_name.some
                          => \E p \in Permutations(1..n) :
                                 listed.long_name.val
                                     = Concat([i \in 1..n |->
                                           FragmentChars(UnitsOf(slots[frs[p[i]]]))])

\* A directory has been scanned in which a first record has a long name and
\* a second one, directly behind it, has none and displays its short name.
C24_Witness ==
    /\ last.op = "Directory::read_entries"
    /\ Len(last.res.val) = 2
    /\ last.res.val[1].long_name.some
    /\ last.res.val[2].long_name = None
    /\ FragmentsBefore(ScannedSlots, NthListed(ScannedSlots, 1)) # <<>>
    /\ DirEntry_name(last.res.val[2]) = DirectoryEntry_short_name(last.res.val[2].entry)

\* A long-name slot whose type field or first-cluster field is not 0.
InvalidFragment(slot) ==
    /\ slot[1] # EndMarker /\ slot[1] # DeletedMarker
    /\ slot[12] = LfnAttribute
    /\ (slot[13] # 0 \/ slot[27] # 0 \/ slot[28] # 0)

\* The buffer less its invalid long-name slots.
WithoutInvalid(data) ==
    Concat(SelectSeq(Chunks(data), LAMBDA slot : ~InvalidFragment(slot)))

\* C25: Directory::read_entries returns Ok for every byte sequence; a
\* long-name record whose type field or first-cluster field is not 0 is
\* discarded, the scan giving what it gives on the buffer without that
\* record; and every record before the end marker that is neither deleted,
\* nor a long-name one, nor a volume label is listed, in order, whatever
\* stands before it.
C25_ScanNeverFails ==
    last.op = "Directory::read_entries"
        => /\ last.res.ok
           /\ last.res = Directory_read_entries(WithoutInvalid(device_data))
           /\ LET kept == SelectSeq(ScannedSlots, Listed)
              IN  /\ Len(last.res.val) = Len(kept)
                  /\ \A i \in 1..Len(kept) :
                         last.res.val[i].entry = DirectoryEntry_from_bytes(kept[i]).val

\* A directory that starts with an invalid long-name slot has been scanned,
\* and the two records behind the slot are listed, with no long name.
C25_Witness ==
    /\ last.op = "Directory::read_entries"
    /\ last.res.ok
    /\ Len(ScannedSlots) = 3
    /\ InvalidFragment(ScannedSlots[1])
    /\ Len(last.res.val) = 2
    /\ last.res.val[1].long_name = None

\* bs less its trailing spaces.
RECURSIVE TrimTrailing(_)
TrimTrailing(bs) ==
    IF bs = <<>> \/ bs[Len(bs)] # Space THEN bs
    ELSE TrimTrailing(SubSeq(bs, 1, Len(bs) - 1))

\* The short name of a slot as the claim formats it: the 8-byte name less its
\* trailing spaces, then '.' and the extension unless the extension is blank.
Formatted(slot) ==
    LET name == TrimTrailing(SubSeq(slot, 1, 8))
        ext == TrimTrailing(SubSeq(slot, 9, 11))
    IN  IF ext = <<>> THEN name ELSE name \o <<Dot>> \o ext

\* C26: Directory::find_entry never fails; it returns the first record, among
\* the slots before the first one starting with 0x00 and the deleted ones
\* left out, whose formatted short name equals the name ignoring ASCII case,
\* and None when there is none.
C26_FindEntryFirstMatch ==
    last.op = "Directory::find_entry"
        => LET slots == ScannedSlots
               hits == {i \in 1..Len(slots) :
                           /\ slots[i][1] # DeletedMarker
                           /\ EqIgnoreAsciiCase(Formatted(slots[i]), last.path)}
           IN  /\ last.res.ok
               /\ hits = {} => last.res.val = None
               /\ hits # {}
                      => last.res.val
                             = Some(DirectoryEntry_from_bytes(
                                        slots[CHOOSE i \in hits : \A j \in hits : i <= j]).val)

\* The number of valid long-name slots that stand directly before slot k.
RECURSIVE RunLength(_, _)
RunLength(slots, k) ==
    IF k > 1 /\ ValidFragment(slots[k - 1]) THEN 1 + RunLength(slots, k - 1) ELSE 0

\* The n slots before slot k are a well-formed long-name sequence: order n
\* with the last flag first, then the orders n-1 down to 1.
WellFormedRun(slots, k, n) ==
    /\ n >= 1
    /\ slots[k - n][1] = 64 + n
    /\ \A j \in 1..(n - 1) : slots[k - j][1] = j

\* The code units of a fragment before its first 0x0000 or 0xFFFF.
RECURSIVE CutUnits(_)
CutUnits(units) ==
    IF units = <<>> \/ Head(units) = 0 \/ Head(units) = 65535 THEN <<>>
    ELSE <<Head(units)>> \o CutUnits(Tail(units))

\* C27: for a well-formed long-name sequence of n >= 1 fragments directly
\* followed by its short record, the display name of the listed entry is the
\* name in reading order: the characters of fragment 1, then fragment 2, up
\* to fragment n, each cut at its first 0x0000 or 0xFFFF unit.
C27_ReadingOrder ==
    last.op = "Directory::read_entries"
        => \A j \in 1..Len(last.res.val) :
               LET slots == ScannedSlots
                   k == NthListed(slots, j)
                   n == RunLength(slots, k)
               IN  WellFormedRun(slots, k, n)
                       => DirEntry_name(last.res.val[j])
                              = Ok(Concat([f \in 1..n |->
                                       CutUnits(UnitsOf(slots[k - f]))]))

\* C28: every record find_entry returns is a record read_entries lists on the
\* same bytes: it is neither a volume label nor a long-name slot.
C28_FoundIsListed ==
    (last.op = "Directory::find_entry" /\ last.res.ok /\ last.res.val.some)
        => LET found == last.res.val.val
               listing == Directory_read_entries(device_data).val
           IN  /\ ~DirectoryEntry_is_volume_label(found)
               /\ found.attributes # LfnAttribute
               /\ \E i \in 1..Len(listing) : listing[i].entry = found

====
